---- MODULE Spec2Model ----
(***************************************************************************)
(* Model of the snek8 CHIP-8 core (cpu.c / cpu.h) and of the Snek8Emulator *)
(* extension type that drives it (core.c).                                 *)
(***************************************************************************)
EXTENDS Integers, Sequences, FiniteSets, TLC

(***************************************************************************)
(* Program constants (cpu.h).                                              *)
(***************************************************************************)
SNEK8_SIZE_KEYSET == 16
SNEK8_SIZE_STACK == 16
SNEK8_SIZE_REGISTERS == 16
SNEK8_SIZE_RAM == 4096
SNEK8_SIZE_MAX_ROM_FILE == 3584
SNEK8_SIZE_FONTSET_PIXELS == 80
SNEK8_SIZE_FONTSET_PIXEL_PER_SPRITE == 5
SNEK8_SIZE_GRAPHICS == 2048
SNEK8_GRAPHICS_WIDTH == 64
SNEK8_GRAPHICS_HEIGTH == 32
SNEK8_MEM_ADDR_PROG_START == 512
SNEK8_MEM_ADDR_FONTSET_START == 80
SNEK8_MEM_ADDR_RAM_END == 4095
SNEK8_IMPLM_MODE_SHIFTS_USE_VY == 1
SNEK8_IMPLM_MODE_BNNN_USES_VX == 2
SNEK8_IMPLM_MODE_FX_CHANGES_I == 4
UINT8_MAX == 255
\* number of values of a uint8_t / uint16_t (arithmetic on them wraps)
U8 == 256
U16 == 65536

(***************************************************************************)
(* Bounds of the model.                                                    *)
(***************************************************************************)
\* emulationStep() calls in one behaviour of Spec
MaxSteps == 5
\* other host calls (loadRom, setKeyValue, ...) in one behaviour of Spec
MaxCalls == 2
\* emulationStep() calls in one behaviour of SpecRun
MaxRunSteps == 18

(***************************************************************************)
(* C operators on unsigned integers.                                       *)
(***************************************************************************)
RECURSIVE BitAnd(_, _)
BitAnd(a, b) ==
    IF a = 0 \/ b = 0 THEN 0
    ELSE (a % 2) * (b % 2) + 2 * BitAnd(a \div 2, b \div 2)

RECURSIVE BitOr(_, _)
BitOr(a, b) ==
    IF a = 0 THEN b
    ELSE IF b = 0 THEN a
    ELSE (IF a % 2 = 1 \/ b % 2 = 1 THEN 1 ELSE 0) + 2 * BitOr(a \div 2, b \div 2)

RECURSIVE BitXor(_, _)
BitXor(a, b) ==
    IF a = 0 THEN b
    ELSE IF b = 0 THEN a
    ELSE ((a + b) % 2) + 2 * BitXor(a \div 2, b \div 2)

\* cpu->implm_flags & flag, as a condition
FlagSet(implm_flags, flag) == BitAnd(implm_flags, flag) # 0

(***************************************************************************)
(* Byte arrays.  memory[4096] and graphics[2048] are kept as the finite    *)
(* function of their nonzero cells: a cell outside the domain holds 0.     *)
(* Cell reads a cell, Put writes one.                                      *)
(***************************************************************************)
Cell(arr, i) == IF i \in DOMAIN arr THEN arr[i] ELSE 0

Put(arr, i, v) ==
    IF v = 0
    THEN [j \in (DOMAIN arr) \ {i} |-> arr[j]]
    ELSE [j \in (DOMAIN arr) \cup {i} |-> IF j = i THEN v ELSE arr[j]]

\* memset(arr, 0, size)
Zeroed == [j \in {} |-> 0]

(***************************************************************************)
(* Opcode accessors (cpu.h).                                               *)
(***************************************************************************)
snek8_opcodeGetNibble(opcode, indx) == (opcode \div (16 ^ indx)) % 16

snek8_opcodeGetAddr(opcode) == opcode % 4096

snek8_opcodeGetByte(opcode) == opcode % 256

(***************************************************************************)
(* Results of an instruction: the CPU after it and the code it returns.    *)
(* An instruction whose effect is not determined by the CPU alone (rand(), *)
(* an access outside an array) has several results.                        *)
(***************************************************************************)
Res(cpu, out) == [cpu |-> cpu, out |-> out]

Success(cpu) == {Res(cpu, "SUCCESS")}

(***************************************************************************)
(* Stack.                                                                  *)
(***************************************************************************)
snek8_stackInit == [buffer |-> [i \in 0..(SNEK8_SIZE_STACK - 1) |-> 0], sp |-> 0]

\* snek8_stackPush without the test for a full stack
snek8_stackPush_NoCheck(cpu, opcode) ==
    Success([cpu EXCEPT !.stack.buffer[cpu.stack.sp] = cpu.pc,
                        !.stack.sp = cpu.stack.sp + 1,
                        !.pc = snek8_opcodeGetAddr(opcode)])

\* snek8_stackPush incrementing sp before it stores pc
snek8_stackPush_IncFirst(cpu, opcode) ==
    IF SNEK8_SIZE_STACK = cpu.stack.sp
    THEN {Res(cpu, "STACK_OVERFLOW")}
    ELSE Success([cpu EXCEPT !.stack.buffer[cpu.stack.sp + 1] = cpu.pc,
                             !.stack.sp = cpu.stack.sp + 1,
                             !.pc = snek8_opcodeGetAddr(opcode)])

snek8_stackPush(cpu, opcode) ==
    IF SNEK8_SIZE_STACK = cpu.stack.sp
    THEN {Res(cpu, "STACK_OVERFLOW")}
    ELSE Success([cpu EXCEPT !.stack.buffer[cpu.stack.sp] = cpu.pc,
                             !.stack.sp = cpu.stack.sp + 1,
                             !.pc = snek8_opcodeGetAddr(opcode)])

\* snek8_stackPop reading the entry before it decrements sp
snek8_stackPop_ReadFirst(cpu) ==
    IF 0 = cpu.stack.sp
    THEN {Res(cpu, "STACK_EMPTY")}
    ELSE Success([cpu EXCEPT !.stack.sp = cpu.stack.sp - 1,
                             !.pc = cpu.stack.buffer[cpu.stack.sp % SNEK8_SIZE_STACK]])

\* snek8_stackPop returning to the oldest entry instead of the newest
snek8_stackPop_Oldest(cpu) ==
    IF 0 = cpu.stack.sp
    THEN {Res(cpu, "STACK_EMPTY")}
    ELSE Success([cpu EXCEPT !.stack.sp = cpu.stack.sp - 1,
                             !.pc = cpu.stack.buffer[0]])

snek8_stackPop(cpu) ==
    IF 0 = cpu.stack.sp
    THEN {Res(cpu, "STACK_EMPTY")}
    ELSE Success([cpu EXCEPT !.stack.sp = cpu.stack.sp - 1,
                             !.pc = cpu.stack.buffer[cpu.stack.sp - 1]])

(***************************************************************************)
(* CPU construction.                                                       *)
(***************************************************************************)
fontset ==
    << 240, 144, 144, 144, 240,
       32, 96, 32, 32, 112,
       240, 16, 240, 128, 240,
       240, 16, 240, 16, 240,
       144, 144, 240, 16, 16,
       240, 128, 240, 16, 240,
       240, 128, 240, 144, 240,
       240, 16, 32, 64, 64,
       240, 144, 240, 144, 240,
       240, 144, 240, 16, 240,
       240, 144, 240, 144, 144,
       224, 144, 224, 144, 224,
       240, 128, 128, 128, 240,
       224, 144, 144, 144, 224,
       240, 128, 240, 128, 240,
       240, 128, 240, 128, 128 >>

\* the addresses memcpy(cpu->memory + 0x50, fontset, 80) writes
FontRange ==
    SNEK8_MEM_ADDR_FONTSET_START..(SNEK8_MEM_ADDR_FONTSET_START + SNEK8_SIZE_FONTSET_PIXELS - 1)

\* memory after memset(&cpu->memory, 0, 4096) and the memcpy of the fontset
InitMemory ==
    LET byte(a) == fontset[a - SNEK8_MEM_ADDR_FONTSET_START + 1]
    IN  [a \in {b \in FontRange : byte(b) # 0} |-> byte(a)]

\* snek8_cpuInit assigns every field but st, which keeps the value it had
snek8_cpuInit(cpu, implm_flags) ==
    [memory |-> InitMemory,
     graphics |-> Zeroed,
     stack |-> snek8_stackInit,
     registers |-> [i \in 0..(SNEK8_SIZE_REGISTERS - 1) |-> 0],
     keys |-> 0,
     pc |-> SNEK8_MEM_ADDR_PROG_START,
     ir |-> 0,
     implm_flags |-> implm_flags,
     sp |-> 0,
     st |-> cpu.st,
     dt |-> 0]

\* the zero-filled object tp_alloc returns (snek8_emulatorNew)
ZeroCPU ==
    [memory |-> Zeroed,
     graphics |-> Zeroed,
     stack |-> snek8_stackInit,
     registers |-> [i \in 0..(SNEK8_SIZE_REGISTERS - 1) |-> 0],
     keys |-> 0, pc |-> 0, ir |-> 0, implm_flags |-> 0, sp |-> 0, st |-> 0, dt |-> 0]

(***************************************************************************)
(* Timers, program counter, fetch, keys.                                   *)
(***************************************************************************)
_snek8_cpuTickTimers(cpu) ==
    [cpu EXCEPT !.dt = IF cpu.dt # 0 THEN cpu.dt - 1 ELSE cpu.dt,
                !.st = IF cpu.st # 0 THEN cpu.st - 1 ELSE cpu.st]

_snek8_cpuIncrementPC(cpu) == [cpu EXCEPT !.pc = (cpu.pc + 2) % U16]

_snek8_cpuDecrementPC(cpu) == [cpu EXCEPT !.pc = (cpu.pc + U16 - 2) % U16]

\* what an access outside an array may yield besides the aliased field
OobBytes == {0, 255}

\* cpu.memory[a] as the C code reads it: inside the array the cell; outside it
\* the read is undefined: graphics follows memory in Snek8CPU, so the read may
\* yield the aliased graphics cell, or anything else
MemRead(cpu, a) ==
    IF a < SNEK8_SIZE_RAM THEN {Cell(cpu.memory, a)}
    ELSE IF a - SNEK8_SIZE_RAM < SNEK8_SIZE_GRAPHICS
         THEN {Cell(cpu.graphics, a - SNEK8_SIZE_RAM)} \cup OobBytes
         ELSE OobBytes

\* cpu->memory[a] = v: outside the array the write is undefined: it may land in
\* the aliased graphics cell or be lost
MemWrite(cpu, a, v) ==
    IF a < SNEK8_SIZE_RAM THEN {[cpu EXCEPT !.memory = Put(cpu.memory, a, v)]}
    ELSE IF a - SNEK8_SIZE_RAM < SNEK8_SIZE_GRAPHICS
         THEN {[cpu EXCEPT !.graphics = Put(cpu.graphics, a - SNEK8_SIZE_RAM, v)], cpu}
         ELSE {cpu}

\* the addresses the fetch reads
FetchAddrs(cpu) == {cpu.pc, cpu.pc + 1}

_snek8_cpuGetOpcode(cpu) ==
    {hi * 256 + lo : hi \in MemRead(cpu, cpu.pc), lo \in MemRead(cpu, cpu.pc + 1)}

\* cpu.keys & (1u << key): a shift by 32 or more is undefined
snek8_cpuGetKeyVal(cpu, key) ==
    IF key < 16 THEN {(cpu.keys \div (2 ^ key)) % 2 = 1}
    ELSE IF key < 32 THEN {FALSE}
    ELSE BOOLEAN

\* snek8_cpuSetKey pressing with cpu->keys ^= (1 << key)
snek8_cpuSetKey_Toggle(cpu, key, value) ==
    IF value
    THEN [cpu EXCEPT !.keys = BitXor(cpu.keys, 2 ^ key)]
    ELSE [cpu EXCEPT !.keys = BitAnd(cpu.keys, U16 - 1 - (2 ^ key))]

snek8_cpuSetKey(cpu, key, value) ==
    IF value
    THEN [cpu EXCEPT !.keys = BitOr(cpu.keys, 2 ^ key)]
    ELSE [cpu EXCEPT !.keys = BitAnd(cpu.keys, U16 - 1 - (2 ^ key))]

(***************************************************************************)
(* Instructions.  X, Y, N name the nibbles 2, 1, 0 of the opcode.          *)
(***************************************************************************)
snek8_cpuExecutionError(cpu, opcode) == {Res(cpu, "INVALID_OPCODE")}

snek8_cpuCLS(cpu, opcode) == Success([cpu EXCEPT !.graphics = Zeroed])

snek8_cpuRET(cpu, opcode) == snek8_stackPop(cpu)

snek8_cpuCALL(cpu, opcode) == snek8_stackPush(cpu, opcode)

snek8_cpuJMP_ADDR(cpu, opcode) == Success([cpu EXCEPT !.pc = snek8_opcodeGetAddr(opcode)])

snek8_cpuSE_VX_BYTE(cpu, opcode) ==
    LET kk == snek8_opcodeGetByte(opcode)
        x == snek8_opcodeGetNibble(opcode, 2)
    IN  Success(IF cpu.registers[x] = kk THEN _snek8_cpuIncrementPC(cpu) ELSE cpu)

snek8_cpuSNE_VX_BYTE(cpu, opcode) ==
    LET kk == snek8_opcodeGetByte(opcode)
        x == snek8_opcodeGetNibble(opcode, 2)
    IN  Success(IF cpu.registers[x] # kk THEN _snek8_cpuIncrementPC(cpu) ELSE cpu)

snek8_cpuLD_VX_BYTE(cpu, opcode) ==
    LET kk == snek8_opcodeGetByte(opcode)
        x == snek8_opcodeGetNibble(opcode, 2)
    IN  Success([cpu EXCEPT !.registers[x] = kk])

\* snek8_cpuADD_VX_BYTE writing the carry to VF
snek8_cpuADD_VX_BYTE_Carry(cpu, opcode) ==
    LET kk == snek8_opcodeGetByte(opcode)
        x == snek8_opcodeGetNibble(opcode, 2)
        c1 == [cpu EXCEPT !.registers[x] = (cpu.registers[x] + kk) % U8]
    IN  Success([c1 EXCEPT !.registers[15] = IF cpu.registers[x] + kk > UINT8_MAX
                                               THEN 1 ELSE 0])

snek8_cpuADD_VX_BYTE(cpu, opcode) ==
    LET kk == snek8_opcodeGetByte(opcode)
        x == snek8_opcodeGetNibble(opcode, 2)
    IN  Success([cpu EXCEPT !.registers[x] = (cpu.registers[x] + kk) % U8])

snek8_cpuSE_VX_VY(cpu, opcode) ==
    LET x == snek8_opcodeGetNibble(opcode, 2)
        y == snek8_opcodeGetNibble(opcode, 1)
    IN  Success(IF cpu.registers[x] = cpu.registers[y]
                THEN _snek8_cpuIncrementPC(cpu) ELSE cpu)

snek8_cpuSNE_VX_VY(cpu, opcode) ==
    LET x == snek8_opcodeGetNibble(opcode, 2)
        y == snek8_opcodeGetNibble(opcode, 1)
    IN  Success(IF cpu.registers[x] # cpu.registers[y]
                THEN _snek8_cpuIncrementPC(cpu) ELSE cpu)

snek8_cpuLD_VX_VY(cpu, opcode) ==
    LET x == snek8_opcodeGetNibble(opcode, 2)
        y == snek8_opcodeGetNibble(opcode, 1)
    IN  Success([cpu EXCEPT !.registers[x] = cpu.registers[y]])

snek8_cpuOR_VX_VY(cpu, opcode) ==
    LET x == snek8_opcodeGetNibble(opcode, 2)
        y == snek8_opcodeGetNibble(opcode, 1)
    IN  Success([cpu EXCEPT !.registers[x] = BitOr(cpu.registers[x], cpu.registers[y])])

snek8_cpuAND_VX_VY(cpu, opcode) ==
    LET x == snek8_opcodeGetNibble(opcode, 2)
        y == snek8_opcodeGetNibble(opcode, 1)
    IN  Success([cpu EXCEPT !.registers[x] = BitAnd(cpu.registers[x], cpu.registers[y])])

snek8_cpuXOR_VX_VY(cpu, opcode) ==
    LET x == snek8_opcodeGetNibble(opcode, 2)
        y == snek8_opcodeGetNibble(opcode, 1)
    IN  Success([cpu EXCEPT !.registers[x] = BitXor(cpu.registers[x], cpu.registers[y])])

\* snek8_cpuADD_VX_VY reporting a carry for a sum of 255 too
snek8_cpuADD_VX_VY_CarryAt255(cpu, opcode) ==
    LET x == snek8_opcodeGetNibble(opcode, 2)
        y == snek8_opcodeGetNibble(opcode, 1)
        carry == IF (UINT8_MAX - cpu.registers[x]) <= cpu.registers[y] THEN 1 ELSE 0
        c1 == [cpu EXCEPT !.registers[x] = (cpu.registers[x] + cpu.registers[y]) % U8]
    IN  Success([c1 EXCEPT !.registers[15] = carry])

\* the flag is computed first, the result stored, then VF written
snek8_cpuADD_VX_VY(cpu, opcode) ==
    LET x == snek8_opcodeGetNibble(opcode, 2)
        y == snek8_opcodeGetNibble(opcode, 1)
        carry == IF (UINT8_MAX - cpu.registers[x]) < cpu.registers[y] THEN 1 ELSE 0
        c1 == [cpu EXCEPT !.registers[x] = (cpu.registers[x] + cpu.registers[y]) % U8]
    IN  Success([c1 EXCEPT !.registers[15] = carry])

\* snek8_cpuSUB_VX_VY reporting a borrow for equal operands
snek8_cpuSUB_VX_VY_Strict(cpu, opcode) ==
    LET x == snek8_opcodeGetNibble(opcode, 2)
        y == snek8_opcodeGetNibble(opcode, 1)
        not_borrow == IF cpu.registers[x] > cpu.registers[y] THEN 1 ELSE 0
        c1 == [cpu EXCEPT !.registers[x] = (cpu.registers[x] + U8 - cpu.registers[y]) % U8]
    IN  Success([c1 EXCEPT !.registers[15] = not_borrow])

snek8_cpuSUB_VX_VY(cpu, opcode) ==
    LET x == snek8_opcodeGetNibble(opcode, 2)
        y == snek8_opcodeGetNibble(opcode, 1)
        not_borrow == IF cpu.registers[x] >= cpu.registers[y] THEN 1 ELSE 0
        c1 == [cpu EXCEPT !.registers[x] = (cpu.registers[x] + U8 - cpu.registers[y]) % U8]
    IN  Success([c1 EXCEPT !.registers[15] = not_borrow])

snek8_cpuSUBN_VX_VY(cpu, opcode) ==
    LET x == snek8_opcodeGetNibble(opcode, 2)
        y == snek8_opcodeGetNibble(opcode, 1)
        not_borrow == IF cpu.registers[y] >= cpu.registers[x] THEN 1 ELSE 0
        c1 == [cpu EXCEPT !.registers[x] = (cpu.registers[y] + U8 - cpu.registers[x]) % U8]
    IN  Success([c1 EXCEPT !.registers[15] = not_borrow])

\* the flag is taken from V[X] before the quirk copies V[Y] into it
snek8_cpuSHR_VX_VY(cpu, opcode) ==
    LET x == snek8_opcodeGetNibble(opcode, 2)
        y == snek8_opcodeGetNibble(opcode, 1)
        shr_underflow == cpu.registers[x] % 2
        c1 == IF FlagSet(cpu.implm_flags, SNEK8_IMPLM_MODE_SHIFTS_USE_VY)
              THEN [cpu EXCEPT !.registers[x] = cpu.registers[y]] ELSE cpu
        c2 == [c1 EXCEPT !.registers[x] = c1.registers[x] \div 2]
    IN  Success([c2 EXCEPT !.registers[15] = shr_underflow])

snek8_cpuSHL_VX_VY(cpu, opcode) ==
    LET x == snek8_opcodeGetNibble(opcode, 2)
        y == snek8_opcodeGetNibble(opcode, 1)
        shl_overflow == BitAnd(cpu.registers[x], 128) \div 128
        c1 == IF FlagSet(cpu.implm_flags, SNEK8_IMPLM_MODE_SHIFTS_USE_VY)
              THEN [cpu EXCEPT !.registers[x] = cpu.registers[y]] ELSE cpu
        c2 == [c1 EXCEPT !.registers[x] = (c1.registers[x] * 2) % U8]
    IN  Success([c2 EXCEPT !.registers[15] = shl_overflow])

snek8_cpuLD_I_ADDR(cpu, opcode) == Success([cpu EXCEPT !.ir = snek8_opcodeGetAddr(opcode)])

\* with the quirk on, x = snek8_opcodeGetNibble(opcode, x) is evaluated with x = 0
snek8_cpuJP_V0_ADDR(cpu, opcode) ==
    LET addr == snek8_opcodeGetAddr(opcode)
        x == IF FlagSet(cpu.implm_flags, SNEK8_IMPLM_MODE_BNNN_USES_VX)
             THEN snek8_opcodeGetNibble(opcode, 0) ELSE 0
    IN  Success([cpu EXCEPT !.pc = (addr + cpu.registers[x]) % U16])

\* the values rand() is taken to return
RandValues == {0, 90, 255}

snek8_cpuRND_VX_BYTE(cpu, opcode) ==
    LET kk == snek8_opcodeGetByte(opcode)
        x == snek8_opcodeGetNibble(opcode, 2)
    IN  {Res([cpu EXCEPT !.registers[x] = BitAnd(r, kk)], "SUCCESS") : r \in RandValues}

\* &cpu->graphics[(y & 31) * 64 + (x & 63)]
snek8_cpuGetPixel(x, y) == (y % 32) * SNEK8_GRAPHICS_WIDTH + (x % 64)

\* DrawByte with *pixel_ptr |= bit
DrawByte_Or(cpu, px, py, col) ==
    LET byte == Cell(cpu.memory, cpu.ir + col)
        bit(row) == BitAnd(byte, 128 \div (2 ^ row))
        pixel_ptr(row) == snek8_cpuGetPixel(px + row, py + col)
        pixel(row) == BitOr(Cell(cpu.graphics, pixel_ptr(row)), bit(row))
        ptrs == {pixel_ptr(row) : row \in 0..7}
        rowOf(p) == CHOOSE row \in 0..7 : pixel_ptr(row) = p
        lit == {p \in (DOMAIN cpu.graphics) \cup ptrs :
                    IF p \in ptrs THEN pixel(rowOf(p)) # 0 ELSE TRUE}
        graphics == [p \in lit |->
                        IF p \in ptrs THEN pixel(rowOf(p)) ELSE cpu.graphics[p]]
        c1 == [cpu EXCEPT !.graphics = graphics]
    IN  IF \E row \in 0..7 : bit(row) # 0 /\ pixel(row) = 0
        THEN [c1 EXCEPT !.registers[15] = 1]
        ELSE c1

\* the inner loop of DRW for sprite byte col: the eight cells
\* snek8_cpuGetPixel(px + row, py + col) are distinct, so each is XORed once
\* with its bit, and VF is set when a set bit leaves its cell 0
DrawByte(cpu, px, py, col) ==
    LET byte == Cell(cpu.memory, cpu.ir + col)
        bit(row) == BitAnd(byte, 128 \div (2 ^ row))
        pixel_ptr(row) == snek8_cpuGetPixel(px + row, py + col)
        pixel(row) == BitXor(Cell(cpu.graphics, pixel_ptr(row)), bit(row))
        ptrs == {pixel_ptr(row) : row \in 0..7}
        rowOf(p) == CHOOSE row \in 0..7 : pixel_ptr(row) = p
        lit == {p \in (DOMAIN cpu.graphics) \cup ptrs :
                    IF p \in ptrs THEN pixel(rowOf(p)) # 0 ELSE TRUE}
        graphics == [p \in lit |->
                        IF p \in ptrs THEN pixel(rowOf(p)) ELSE cpu.graphics[p]]
        c1 == [cpu EXCEPT !.graphics = graphics]
    IN  IF \E row \in 0..7 : bit(row) # 0 /\ pixel(row) = 0
        THEN [c1 EXCEPT !.registers[15] = 1]
        ELSE c1

\* the outer loop of DRW, over the sprite's bytes
RECURSIVE DrawLoop(_, _, _, _, _)
DrawLoop(cpu, px, py, n, col) ==
    IF col >= n THEN cpu
    ELSE DrawLoop(DrawByte(cpu, px, py, col), px, py, n, col + 1)

\* VF is cleared before the bounds check and before V[X], V[Y] are read
snek8_cpuDRW_VX_VY_N(cpu, opcode) ==
    LET c0 == [cpu EXCEPT !.registers[15] = 0]
        x == snek8_opcodeGetNibble(opcode, 2)
        y == snek8_opcodeGetNibble(opcode, 1)
        n == snek8_opcodeGetNibble(opcode, 0)
    IN  IF c0.ir + n > SNEK8_MEM_ADDR_RAM_END
        THEN {Res(c0, "MEM_ADDR_OUT_OF_BOUNDS")}
        ELSE Success(DrawLoop(c0, c0.registers[x], c0.registers[y], n, 0))

snek8_cpuSKP_VX(cpu, opcode) ==
    LET x == snek8_opcodeGetNibble(opcode, 2)
        key == cpu.registers[x]
    IN  {Res(IF held THEN _snek8_cpuIncrementPC(cpu) ELSE cpu, "SUCCESS") :
            held \in snek8_cpuGetKeyVal(cpu, key)}

\* snek8_cpuSKNP_VX without the negation
snek8_cpuSKNP_VX_NoNot(cpu, opcode) ==
    LET x == snek8_opcodeGetNibble(opcode, 2)
        key == cpu.registers[x]
    IN  {Res(IF held THEN _snek8_cpuIncrementPC(cpu) ELSE cpu, "SUCCESS") :
            held \in snek8_cpuGetKeyVal(cpu, key)}

snek8_cpuSKNP_VX(cpu, opcode) ==
    LET x == snek8_opcodeGetNibble(opcode, 2)
        key == cpu.registers[x]
    IN  {Res(IF ~held THEN _snek8_cpuIncrementPC(cpu) ELSE cpu, "SUCCESS") :
            held \in snek8_cpuGetKeyVal(cpu, key)}

snek8_cpuLD_VX_DT(cpu, opcode) ==
    LET x == snek8_opcodeGetNibble(opcode, 2)
    IN  Success([cpu EXCEPT !.registers[x] = cpu.dt])

\* FirstKey scanning down from key 15
FirstKey_FromTop(cpu) ==
    CHOOSE key \in 0..(SNEK8_SIZE_KEYSET - 1) :
        /\ TRUE \in snek8_cpuGetKeyVal(cpu, key)
        /\ \A k \in (key + 1)..(SNEK8_SIZE_KEYSET - 1) : ~(TRUE \in snek8_cpuGetKeyVal(cpu, k))

\* the first held key, scanning from key 0
FirstKey(cpu) ==
    CHOOSE key \in 0..(SNEK8_SIZE_KEYSET - 1) :
        /\ TRUE \in snek8_cpuGetKeyVal(cpu, key)
        /\ \A k \in 0..(key - 1) : ~(TRUE \in snek8_cpuGetKeyVal(cpu, k))

\* snek8_cpuLD_VX_K stepping pc back with a key held too
snek8_cpuLD_VX_K_AlwaysBack(cpu, opcode) ==
    LET x == snek8_opcodeGetNibble(opcode, 2)
    IN  IF cpu.keys = 0
        THEN Success(_snek8_cpuDecrementPC(cpu))
        ELSE Success(_snek8_cpuDecrementPC([cpu EXCEPT !.registers[x] = FirstKey(cpu)]))

snek8_cpuLD_VX_K(cpu, opcode) ==
    LET x == snek8_opcodeGetNibble(opcode, 2)
    IN  IF cpu.keys = 0
        THEN Success(_snek8_cpuDecrementPC(cpu))
        ELSE Success([cpu EXCEPT !.registers[x] = FirstKey(cpu)])

snek8_cpuLD_DT_VX(cpu, opcode) ==
    LET x == snek8_opcodeGetNibble(opcode, 2)
    IN  Success([cpu EXCEPT !.dt = cpu.registers[x]])

snek8_cpuLD_ST_VX(cpu, opcode) ==
    LET x == snek8_opcodeGetNibble(opcode, 2)
    IN  Success([cpu EXCEPT !.st = cpu.registers[x]])

snek8_cpuADD_I_VX(cpu, opcode) ==
    LET x == snek8_opcodeGetNibble(opcode, 2)
    IN  Success([cpu EXCEPT !.ir = (cpu.ir + cpu.registers[x]) % 4096])

snek8_cpuLD_F_VX(cpu, opcode) ==
    LET x == snek8_opcodeGetNibble(opcode, 2)
    IN  Success([cpu EXCEPT !.ir = SNEK8_MEM_ADDR_FONTSET_START
                                  + SNEK8_SIZE_FONTSET_PIXEL_PER_SPRITE * cpu.registers[x]])

\* snek8_cpuLD_B_VX with the ones at ir and the hundreds at ir + 2
snek8_cpuLD_B_VX_Reversed(cpu, opcode) ==
    IF cpu.ir + 2 > SNEK8_MEM_ADDR_RAM_END
    THEN {Res(cpu, "MEM_ADDR_OUT_OF_BOUNDS")}
    ELSE LET x == snek8_opcodeGetNibble(opcode, 2)
             value == cpu.registers[x]
             m2 == Put(cpu.memory, cpu.ir, value % 10)
             m1 == Put(m2, cpu.ir + 1, (value \div 10) % 10)
             m0 == Put(m1, cpu.ir + 2, ((value \div 10) \div 10) % 10)
         IN  Success([cpu EXCEPT !.memory = m0])

snek8_cpuLD_B_VX(cpu, opcode) ==
    IF cpu.ir + 2 > SNEK8_MEM_ADDR_RAM_END
    THEN {Res(cpu, "MEM_ADDR_OUT_OF_BOUNDS")}
    ELSE LET x == snek8_opcodeGetNibble(opcode, 2)
             value == cpu.registers[x]
             m2 == Put(cpu.memory, cpu.ir + 2, value % 10)
             m1 == Put(m2, cpu.ir + 1, (value \div 10) % 10)
             m0 == Put(m1, cpu.ir, ((value \div 10) \div 10) % 10)
         IN  Success([cpu EXCEPT !.memory = m0])

\* for (i = 0; i <= x; i++){ memory[ir + i] = registers[i]; ir++; }
RECURSIVE StoreLoopInc(_, _, _)
StoreLoopInc(cpu, i, x) ==
    IF i > x THEN {cpu}
    ELSE UNION {StoreLoopInc([c EXCEPT !.ir = (c.ir + 1) % U16], i + 1, x) :
                    c \in MemWrite(cpu, cpu.ir + i, cpu.registers[i])}

\* StoreLoop stopping before V[x]
RECURSIVE StoreLoop_SkipLast(_, _, _)
StoreLoop_SkipLast(cpu, i, x) ==
    IF i >= x THEN {cpu}
    ELSE UNION {StoreLoop_SkipLast(c, i + 1, x) :
                    c \in MemWrite(cpu, cpu.ir + i, cpu.registers[i])}

\* for (i = 0; i <= x; i++){ memory[ir + i] = registers[i]; }
RECURSIVE StoreLoop(_, _, _)
StoreLoop(cpu, i, x) ==
    IF i > x THEN {cpu}
    ELSE UNION {StoreLoop(c, i + 1, x) : c \in MemWrite(cpu, cpu.ir + i, cpu.registers[i])}

\* snek8_cpuLD_I_V0_VX refusing ir + x = 0xFFF too
snek8_cpuLD_I_V0_VX_Tight(cpu, opcode) ==
    LET x == snek8_opcodeGetNibble(opcode, 2)
    IN  IF cpu.ir + x >= SNEK8_MEM_ADDR_RAM_END
        THEN {Res(cpu, "MEM_ADDR_OUT_OF_BOUNDS")}
        ELSE IF FlagSet(cpu.implm_flags, SNEK8_IMPLM_MODE_FX_CHANGES_I)
             THEN {Res(c, "SUCCESS") : c \in StoreLoopInc(cpu, 0, x)}
             ELSE {Res(c, "SUCCESS") : c \in StoreLoop(cpu, 0, x)}

snek8_cpuLD_I_V0_VX(cpu, opcode) ==
    LET x == snek8_opcodeGetNibble(opcode, 2)
    IN  IF cpu.ir + x > SNEK8_MEM_ADDR_RAM_END
        THEN {Res(cpu, "MEM_ADDR_OUT_OF_BOUNDS")}
        ELSE IF FlagSet(cpu.implm_flags, SNEK8_IMPLM_MODE_FX_CHANGES_I)
             THEN {Res(c, "SUCCESS") : c \in StoreLoopInc(cpu, 0, x)}
             ELSE {Res(c, "SUCCESS") : c \in StoreLoop(cpu, 0, x)}

\* for (i = 0; i <= x; i++){ registers[i] = memory[ir + i]; ir++; }
RECURSIVE LoadLoopInc(_, _, _)
LoadLoopInc(cpu, i, x) ==
    IF i > x THEN {cpu}
    ELSE UNION {LoadLoopInc([cpu EXCEPT !.registers[i] = b, !.ir = (cpu.ir + 1) % U16],
                            i + 1, x) :
                    b \in MemRead(cpu, cpu.ir + i)}

\* for (i = 0; i <= x; i++){ registers[i] = memory[ir + i]; }
RECURSIVE LoadLoop(_, _, _)
LoadLoop(cpu, i, x) ==
    IF i > x THEN {cpu}
    ELSE UNION {LoadLoop([cpu EXCEPT !.registers[i] = b], i + 1, x) :
                    b \in MemRead(cpu, cpu.ir + i)}

snek8_cpuLD_VX_V0_I(cpu, opcode) ==
    LET x == snek8_opcodeGetNibble(opcode, 2)
    IN  IF cpu.ir + x > SNEK8_MEM_ADDR_RAM_END
        THEN {Res(cpu, "MEM_ADDR_OUT_OF_BOUNDS")}
        ELSE IF FlagSet(cpu.implm_flags, SNEK8_IMPLM_MODE_FX_CHANGES_I)
             THEN {Res(c, "SUCCESS") : c \in LoadLoopInc(cpu, 0, x)}
             ELSE {Res(c, "SUCCESS") : c \in LoadLoop(cpu, 0, x)}

(***************************************************************************)
(* Decoding: the mnemonic and the function an opcode is routed to.         *)
(***************************************************************************)
Instr(code, exec) == [code |-> code, exec |-> exec]

NOP == Instr("NOP", "snek8_cpuExecutionError")

snek8_opcodeDecode(opcode) ==
    LET msq == snek8_opcodeGetNibble(opcode, 3)
        lsq == snek8_opcodeGetNibble(opcode, 0)
        iq1 == snek8_opcodeGetNibble(opcode, 1)
    IN  CASE msq = 0 ->
                (CASE lsq = 0 -> Instr("CLS", "snek8_cpuCLS")
                   [] lsq = 14 -> Instr("RET", "snek8_cpuRET")
                   [] OTHER -> NOP)
          [] msq = 1 -> Instr("JP 0x0NNN", "snek8_cpuJMP_ADDR")
          [] msq = 2 -> Instr("CALL 0x0NNN", "snek8_cpuCALL")
          [] msq = 3 -> Instr("SE V{0xX}, 0xKK", "snek8_cpuSE_VX_BYTE")
          [] msq = 4 -> Instr("SNE V{0xX}, 0xKK", "snek8_cpuSNE_VX_BYTE")
          [] msq = 5 -> Instr("SE V{0xX}, V{0xY}", "snek8_cpuSE_VX_VY")
          [] msq = 6 -> Instr("LD V{0xX}, 0xKK", "snek8_cpuLD_VX_BYTE")
          [] msq = 7 -> Instr("ADD V{0xX}, 0xKK", "snek8_cpuADD_VX_BYTE")
          [] msq = 8 ->
                (CASE lsq = 0 -> Instr("LD V{0xX}, V{0xY}", "snek8_cpuLD_VX_VY")
                   [] lsq = 1 -> Instr("OR V{0xX}, V{0xY}", "snek8_cpuOR_VX_VY")
                   [] lsq = 2 -> Instr("AND V{0xX}, V{0xY}", "snek8_cpuAND_VX_VY")
                   [] lsq = 3 -> Instr("XOR V{0xX}, V{0xY}", "snek8_cpuXOR_VX_VY")
                   [] lsq = 4 -> Instr("ADD V{0xX}, V{0xY}", "snek8_cpuADD_VX_VY")
                   [] lsq = 5 -> Instr("SUB V{0xX}, V{0xY}", "snek8_cpuSUB_VX_VY")
                   [] lsq = 6 -> Instr("SHR V{0xX}, V{0xY}", "snek8_cpuSHR_VX_VY")
                   [] lsq = 7 -> Instr("SUBN V{0xX}, V{0xY}", "snek8_cpuSUBN_VX_VY")
                   [] lsq = 14 -> Instr("SHL V{0xX}, V{0xY}", "snek8_cpuSHL_VX_VY")
                   [] OTHER -> NOP)
          [] msq = 9 -> Instr("SNE V{0xX}, V{0xY}", "snek8_cpuSNE_VX_VY")
          [] msq = 10 -> Instr("LD I, 0x0NNN", "snek8_cpuLD_I_ADDR")
          [] msq = 11 -> Instr("JP V{0x0}, 0x0NNN", "snek8_cpuJP_V0_ADDR")
          [] msq = 12 -> Instr("RND V{0xX}, 0xKK", "snek8_cpuRND_VX_BYTE")
          [] msq = 13 -> Instr("DRW V{0xX}, V{0xY}, 0xN", "snek8_cpuDRW_VX_VY_N")
          [] msq = 14 ->
                (CASE lsq = 14 -> Instr("SKP V{0xX}", "snek8_cpuSKP_VX")
                   [] lsq = 1 -> Instr("SKNP V{0xX}", "snek8_cpuSKNP_VX")
                   [] OTHER -> NOP)
          [] msq = 15 ->
                (CASE lsq = 7 -> Instr("LD V{0xX}, DT", "snek8_cpuLD_VX_DT")
                   [] lsq = 10 -> Instr("LD V{0xX}, K{0xK}", "snek8_cpuLD_VX_K")
                   [] lsq = 5 ->
                        (CASE iq1 = 1 -> Instr("LD DT, V{0xX}", "snek8_cpuLD_DT_VX")
                           [] iq1 = 5 -> Instr("LD [I], V{0xX}", "snek8_cpuLD_I_V0_VX")
                           [] iq1 = 6 -> Instr("LD V{0xX}, [I]", "snek8_cpuLD_VX_V0_I")
                           [] OTHER -> NOP)
                   [] lsq = 8 -> Instr("LD ST, V{0xX}", "snek8_cpuLD_ST_VX")
                   [] lsq = 14 -> Instr("ADD I, V{0xX}", "snek8_cpuADD_I_VX")
                   [] lsq = 9 -> Instr("LD F, V{0xX}", "snek8_cpuLD_F_VX")
                   [] lsq = 3 -> Instr("LD B, V{0xX}", "snek8_cpuLD_B_VX")
                   [] OTHER -> NOP)

\* instruction->exec(cpu, opcode): the call through the function pointer
Exec(instruction, cpu, opcode) ==
    LET f == instruction.exec
    IN  CASE f = "snek8_cpuExecutionError" -> snek8_cpuExecutionError(cpu, opcode)
          [] f = "snek8_cpuCLS" -> snek8_cpuCLS(cpu, opcode)
          [] f = "snek8_cpuRET" -> snek8_cpuRET(cpu, opcode)
          [] f = "snek8_cpuJMP_ADDR" -> snek8_cpuJMP_ADDR(cpu, opcode)
          [] f = "snek8_cpuCALL" -> snek8_cpuCALL(cpu, opcode)
          [] f = "snek8_cpuSE_VX_BYTE" -> snek8_cpuSE_VX_BYTE(cpu, opcode)
          [] f = "snek8_cpuSNE_VX_BYTE" -> snek8_cpuSNE_VX_BYTE(cpu, opcode)
          [] f = "snek8_cpuSE_VX_VY" -> snek8_cpuSE_VX_VY(cpu, opcode)
          [] f = "snek8_cpuLD_VX_BYTE" -> snek8_cpuLD_VX_BYTE(cpu, opcode)
          [] f = "snek8_cpuADD_VX_BYTE" -> snek8_cpuADD_VX_BYTE(cpu, opcode)
          [] f = "snek8_cpuLD_VX_VY" -> snek8_cpuLD_VX_VY(cpu, opcode)
          [] f = "snek8_cpuOR_VX_VY" -> snek8_cpuOR_VX_VY(cpu, opcode)
          [] f = "snek8_cpuAND_VX_VY" -> snek8_cpuAND_VX_VY(cpu, opcode)
          [] f = "snek8_cpuXOR_VX_VY" -> snek8_cpuXOR_VX_VY(cpu, opcode)
          [] f = "snek8_cpuADD_VX_VY" -> snek8_cpuADD_VX_VY(cpu, opcode)
          [] f = "snek8_cpuSUB_VX_VY" -> snek8_cpuSUB_VX_VY(cpu, opcode)
          [] f = "snek8_cpuSHR_VX_VY" -> snek8_cpuSHR_VX_VY(cpu, opcode)
          [] f = "snek8_cpuSUBN_VX_VY" -> snek8_cpuSUBN_VX_VY(cpu, opcode)
          [] f = "snek8_cpuSHL_VX_VY" -> snek8_cpuSHL_VX_VY(cpu, opcode)
          [] f = "snek8_cpuSNE_VX_VY" -> snek8_cpuSNE_VX_VY(cpu, opcode)
          [] f = "snek8_cpuLD_I_ADDR" -> snek8_cpuLD_I_ADDR(cpu, opcode)
          [] f = "snek8_cpuJP_V0_ADDR" -> snek8_cpuJP_V0_ADDR(cpu, opcode)
          [] f = "snek8_cpuRND_VX_BYTE" -> snek8_cpuRND_VX_BYTE(cpu, opcode)
          [] f = "snek8_cpuDRW_VX_VY_N" -> snek8_cpuDRW_VX_VY_N(cpu, opcode)
          [] f = "snek8_cpuSKP_VX" -> snek8_cpuSKP_VX(cpu, opcode)
          [] f = "snek8_cpuSKNP_VX" -> snek8_cpuSKNP_VX(cpu, opcode)
          [] f = "snek8_cpuLD_VX_DT" -> snek8_cpuLD_VX_DT(cpu, opcode)
          [] f = "snek8_cpuLD_VX_K" -> snek8_cpuLD_VX_K(cpu, opcode)
          [] f = "snek8_cpuLD_DT_VX" -> snek8_cpuLD_DT_VX(cpu, opcode)
          [] f = "snek8_cpuLD_I_V0_VX" -> snek8_cpuLD_I_V0_VX(cpu, opcode)
          [] f = "snek8_cpuLD_VX_V0_I" -> snek8_cpuLD_VX_V0_I(cpu, opcode)
          [] f = "snek8_cpuLD_ST_VX" -> snek8_cpuLD_ST_VX(cpu, opcode)
          [] f = "snek8_cpuADD_I_VX" -> snek8_cpuADD_I_VX(cpu, opcode)
          [] f = "snek8_cpuLD_F_VX" -> snek8_cpuLD_F_VX(cpu, opcode)
          [] f = "snek8_cpuLD_B_VX" -> snek8_cpuLD_B_VX(cpu, opcode)

(***************************************************************************)
(* One step: fetch, advance pc, decode, execute, tick the timers.          *)
(* A result carries the opcode fetched and the instruction decoded.        *)
(***************************************************************************)
\* snek8_cpuStep advancing pc after the instruction instead of before it
snek8_cpuStep_AdvanceLate(cpu) ==
    UNION {{[cpu |-> _snek8_cpuTickTimers(_snek8_cpuIncrementPC(r.cpu)), out |-> r.out,
             opcode |-> op, instruction |-> snek8_opcodeDecode(op)] :
                r \in Exec(snek8_opcodeDecode(op), cpu, op)} :
            op \in _snek8_cpuGetOpcode(cpu)}

snek8_cpuStep(cpu) ==
    UNION {{[cpu |-> _snek8_cpuTickTimers(r.cpu), out |-> r.out, opcode |-> op,
             instruction |-> snek8_opcodeDecode(op)] :
                r \in Exec(snek8_opcodeDecode(op), _snek8_cpuIncrementPC(cpu), op)} :
            op \in _snek8_cpuGetOpcode(cpu)}

(***************************************************************************)
(* ROM loading.  file is what is at the path: a file of some bytes, or     *)
(* NoFile, for which fopen fails; nread is what fread returns.             *)
(***************************************************************************)
RomFile(bytes) == [found |-> TRUE, bytes |-> bytes]

NoFile == [found |-> FALSE, bytes |-> <<>>]

\* CopyRom leaving out the last byte read
CopyRom_SkipLast(memory, file, nread) ==
    LET R == SNEK8_MEM_ADDR_PROG_START..(SNEK8_MEM_ADDR_PROG_START + nread - 2)
        byte(a) == file.bytes[a - SNEK8_MEM_ADDR_PROG_START + 1]
    IN  [a \in ((DOMAIN memory) \ R) \cup {b \in R : byte(b) # 0} |->
            IF a \in R THEN byte(a) ELSE memory[a]]

\* fread(cpu->memory + 0x200, 1, rom_size, rom_file) having read nread bytes
CopyRom(memory, file, nread) ==
    LET R == SNEK8_MEM_ADDR_PROG_START..(SNEK8_MEM_ADDR_PROG_START + nread - 1)
        byte(a) == file.bytes[a - SNEK8_MEM_ADDR_PROG_START + 1]
    IN  [a \in ((DOMAIN memory) \ R) \cup {b \in R : byte(b) # 0} |->
            IF a \in R THEN byte(a) ELSE memory[a]]

\* the counts a short read is taken to return
ShortReads == {1}

\* what fread may return for a file of rom_size bytes
ReadCounts(rom_size) == {rom_size} \cup {k \in ShortReads : k < rom_size}

\* the second test is on rom_file_path again, not on rom_file: with fopen
\* having failed, fseek(NULL, ...) follows, and the process is lost
snek8_cpuLoadRom(cpu, file) ==
    IF ~file.found
    THEN {Res(cpu, "CRASH")}
    ELSE LET rom_size == Len(file.bytes)
         IN  IF rom_size > SNEK8_SIZE_MAX_ROM_FILE
             THEN {Res(cpu, "ROM_FILE_EXCEEDS_MAX_MEM")}
             ELSE {Res([cpu EXCEPT !.memory = CopyRom(cpu.memory, file, nread)],
                       IF nread # rom_size THEN "ROM_FILE_FAILED_TO_READ" ELSE "SUCCESS") :
                        nread \in ReadCounts(rom_size)}

(***************************************************************************)
(* ROM files and host inputs the model draws from.                         *)
(***************************************************************************)
\* 12 00: jump to itself
RomJumpSelf == <<18, 0>>
\* 60 2A 30 2A 12 08: load, skip if equal, (jump), then past the ROM
RomSetSkip == <<96, 42, 48, 42, 18, 8>>
\* 60 FF 61 01 80 14
RomAddCarry == <<96, 255, 97, 1, 128, 20>>
\* 22 06 00 00 00 00 00 EE: call 0x206, return
RomCallRet == <<34, 6, 0, 0, 0, 0, 0, 238>>
\* 22 00: call itself until the stack is full
RomRecurse == <<34, 0>>
\* 00 EE 60 01: return on an empty stack, then a load
RomRetEmpty == <<0, 238, 96, 1>>
\* 1F FE: jump to the last even address
RomJumpEnd == <<31, 254>>
\* 1F FF: jump to the last address
RomJumpLast == <<31, 255>>
\* 60 FF BF FF: jump to 0xFFF + V0
RomJumpV0 == <<96, 255, 191, 255>>
\* 60 05 F0 15 F0 18 F1 07 80 08 F0 0A: set both timers to 5, read dt, fail, wait
RomTimers == <<96, 5, 240, 21, 240, 24, 241, 7, 128, 8, 240, 10>>
\* 60 05 30 05 00 00 40 05 50 10 90 10: skips on registers, V0 = 5, V1 = 0
RomSkipsA == <<96, 5, 48, 5, 0, 0, 64, 5, 80, 16, 144, 16>>
\* 30 05 40 05 00 00 50 10 00 00 90 10: skips on registers, V0 = V1 = 0
RomSkipsB == <<48, 5, 64, 5, 0, 0, 80, 16, 0, 0, 144, 16>>
\* 60 05 E0 9E E0 A1 E0 A1 E0 9E: skips on key 5
RomKeys == <<96, 5, 224, 158, 224, 161, 224, 161, 224, 158>>
\* F0 0A: wait for a key
RomWaitKey == <<240, 10>>
\* 80 08 E0 1E F0 17 01 20: words outside the instruction set
RomUndefined == <<128, 8, 224, 30, 240, 23, 1, 32>>
\* 60 05 F0 28: LD V0, 0x05; a word of the F family with low byte 0x28
RomStrayTimer == <<96, 5, 240, 40>>

\* 12 00, zeros, and a last byte 01: a ROM of exactly SNEK8_SIZE_MAX_ROM_FILE bytes
RomFull ==
    [i \in 1..SNEK8_SIZE_MAX_ROM_FILE |->
        IF i = 1 THEN 18 ELSE IF i = SNEK8_SIZE_MAX_ROM_FILE THEN 1 ELSE 0]
\* the same with one byte more, 02
RomTooBig ==
    [i \in 1..(SNEK8_SIZE_MAX_ROM_FILE + 1) |->
        IF i = 1 THEN 18 ELSE IF i = SNEK8_SIZE_MAX_ROM_FILE THEN 1
        ELSE IF i = SNEK8_SIZE_MAX_ROM_FILE + 1 THEN 2 ELSE 0]

\* 22 06 22 0A 12 04 22 0A 00 EE 00 EE: call 0x206, which calls 0x20A; both
\* return; call 0x20A again; it returns; loop at 0x204
RomNested == <<34, 6, 34, 10, 18, 4, 34, 10, 0, 238, 0, 238>>

Roms == {RomFull, RomTooBig, RomNested, RomJumpSelf, RomSetSkip, RomAddCarry, RomCallRet, RomRecurse, RomRetEmpty,
         RomJumpEnd, RomJumpLast, RomJumpV0, RomTimers, RomSkipsA, RomSkipsB,
         RomKeys, RomWaitKey, RomUndefined, RomStrayTimer}

\* implm_flags given to the constructor and to __init__ (255 is refused)
InitFlags == {0, 7}
ReinitFlags == {0, 7, 255}
\* flags given to turnFlagsOn / turnFlagsOff
FlagArgs == {1, 2, 4}
\* key indices given to setKeyValue / getKeyValue (16 is out of range)
KeyInputs == {0, 5, 15, 16}

(***************************************************************************)
(* The emulator object and its host.                                       *)
(***************************************************************************)
VARIABLES
    ob_cpu,          \* Snek8Emulator.ob_cpu
    ob_is_running,   \* Snek8Emulator.ob_is_running
    rom_file,        \* the ROM file on the host's disk
    alive,           \* FALSE once the process is lost
    call,            \* the method called last
    ret,             \* what it returned to Python
    rom_out,         \* snek8_emulatorLoadRom's out, of the last loadRom
    out,             \* snek8_emulatorEmulationStep's out, of the last step
    fetch_pc,        \* cpu.pc when the last step fetched
    opcode,          \* snek8_cpuStep's opcode, of the last step
    instruction,     \* snek8_cpuStep's instruction, of the last step
    nsteps,          \* emulationStep() calls so far
    ncalls,          \* other calls so far
    stored,          \* the last LD [I], Vx that succeeded: ob_cpu before and after it
    drawn,           \* the last DRW that succeeded: ob_cpu before it, graphics after it
    pending          \* the return addresses of the CALLs not yet returned from, oldest first

vars == <<ob_cpu, ob_is_running, rom_file, alive, call, ret, rom_out, out, fetch_pc,
          opcode, instruction, nsteps, ncalls, stored, drawn, pending>>

\* stored before any LD [I], Vx has run
NothingStored == [x |-> 0 - 1, before |-> ZeroCPU, after |-> ZeroCPU]

\* stored after a step that took cpu to r
StoredAfter(old, cpu, r) ==
    IF r.instruction.exec = "snek8_cpuLD_I_V0_VX" /\ r.out = "SUCCESS"
    THEN [x |-> snek8_opcodeGetNibble(r.opcode, 2), before |-> cpu, after |-> r.cpu]
    ELSE old

\* drawn before any DRW has run
NothingDrawn == [opcode |-> 0, before |-> ZeroCPU, after |-> Zeroed]

\* drawn after a step that took cpu to r
DrawnAfter(old, cpu, r) ==
    IF r.instruction.exec = "snek8_cpuDRW_VX_VY_N" /\ r.out = "SUCCESS"
    THEN [opcode |-> r.opcode, before |-> cpu, after |-> r.cpu.graphics]
    ELSE old

\* pending after a step that took cpu to r: a CALL that succeeded adds the
\* address of the word after it, a RET that succeeded takes the last one away
PendingAfter(old, cpu, r) ==
    IF r.out # "SUCCESS" THEN old
    ELSE IF r.instruction.exec = "snek8_cpuCALL"
         THEN Append(old, (cpu.pc + 2) % U16)
    ELSE IF r.instruction.exec = "snek8_cpuRET" /\ Len(old) > 0
         THEN SubSeq(old, 1, Len(old) - 1)
    ELSE old

\* snek8_emulatorNew, snek8_emulatorInit on the zero-filled object
Init ==
    /\ \E implm_flags \in InitFlags : ob_cpu = snek8_cpuInit(ZeroCPU, implm_flags)
    /\ ob_is_running = FALSE
    /\ \E bytes \in Roms : rom_file = RomFile(bytes)
    /\ alive = TRUE
    /\ call = "__new__"
    /\ ret = "None"
    /\ rom_out = "NONE"
    /\ out = "NONE"
    /\ fetch_pc = 0
    /\ opcode = 0
    /\ instruction = NOP
    /\ nsteps = 0
    /\ ncalls = 0
    /\ stored = NothingStored
    /\ drawn = NothingDrawn
    /\ pending = <<>>

\* a host call other than emulationStep
HostCall(name) ==
    /\ alive
    /\ ncalls < MaxCalls
    /\ ncalls' = ncalls + 1
    /\ call' = name
    /\ UNCHANGED <<rom_file, out, fetch_pc, opcode, instruction, nsteps, stored, drawn>>
    /\ name # "__init__" => UNCHANGED pending

\* __init__ called again on the object
snek8_emulatorInit(implm_flags) ==
    /\ HostCall("__init__")
    /\ ob_is_running' = FALSE
    /\ IF implm_flags < 0 \/ implm_flags >= 255
       THEN /\ ret' = "ValueError"
            /\ UNCHANGED <<ob_cpu, pending>>
       ELSE /\ ob_cpu' = snek8_cpuInit(ob_cpu, implm_flags % U8)
            /\ ret' = "None"
            /\ pending' = <<>>
    /\ UNCHANGED <<rom_out, alive>>

snek8_emulatorGetKeyValue(key) ==
    /\ HostCall("getKeyValue")
    /\ IF key < 0 \/ key >= 16
       THEN ret' = "IndexError"
       ELSE \E value \in snek8_cpuGetKeyVal(ob_cpu, key) :
                ret' = IF value THEN "True" ELSE "False"
    /\ UNCHANGED <<ob_cpu, ob_is_running, rom_out, alive>>

\* getSP returns the field sp of the CPU, Py_BuildValue("i", ...) of it
snek8_emulatorGetSP ==
    /\ HostCall("getSP")
    /\ ret' = ToString(ob_cpu.sp)
    /\ UNCHANGED <<ob_cpu, ob_is_running, rom_out, alive>>

snek8_emulatorTurnFlagsOn(flags) ==
    /\ HostCall("turnFlagsOn")
    /\ ob_cpu' = [ob_cpu EXCEPT !.implm_flags = BitOr(ob_cpu.implm_flags, flags % U8)]
    /\ ret' = "None"
    /\ UNCHANGED <<ob_is_running, rom_out, alive>>

snek8_emulatorTurnFlagsOff(flags) ==
    /\ HostCall("turnFlagsOff")
    /\ ob_cpu' = [ob_cpu EXCEPT !.implm_flags = BitXor(ob_cpu.implm_flags, flags % U8)]
    /\ ret' = "None"
    /\ UNCHANGED <<ob_is_running, rom_out, alive>>

snek8_emulatorSetRunning(is_running) ==
    /\ HostCall("setRunning")
    /\ ob_is_running' = is_running
    /\ ret' = "None"
    /\ UNCHANGED <<ob_cpu, rom_out, alive>>

snek8_emulatorSetKeyValue(index, value) ==
    /\ HostCall("setKeyValue")
    /\ IF index < 0 \/ index >= 16
       THEN /\ ret' = "IndexError"
            /\ UNCHANGED ob_cpu
       ELSE /\ ob_cpu' = snek8_cpuSetKey(ob_cpu, index, value)
            /\ ret' = "None"
    /\ UNCHANGED <<ob_is_running, rom_out, alive>>

\* ob_is_running after loadRom got out from snek8_cpuLoadRom
LoadRunning(is_running, code) == IF code = "SUCCESS" THEN TRUE ELSE is_running

\* StepRunning setting the flag from the code alone
StepRunning_FromCode(is_running, code) == code = "SUCCESS"

\* ob_is_running after emulationStep got out from snek8_cpuStep
StepRunning(is_running, code) == IF code # "SUCCESS" THEN FALSE ELSE is_running

\* loadRom returns PyBool_FromLong(out): True for every code but SUCCESS
snek8_emulatorLoadRom(file) ==
    /\ HostCall("loadRom")
    /\ \E r \in snek8_cpuLoadRom(ob_cpu, file) :
        /\ ob_cpu' = r.cpu
        /\ rom_out' = r.out
        /\ alive' = (r.out # "CRASH")
        /\ ob_is_running' = LoadRunning(ob_is_running, r.out)
        /\ ret' = IF r.out # "SUCCESS" THEN "True" ELSE "False"

\* emulationStep, but for the count of the calls
StepBody ==
    /\ alive
    /\ call' = "emulationStep"
    /\ fetch_pc' = ob_cpu.pc
    /\ \E r \in snek8_cpuStep(ob_cpu) :
        /\ ob_cpu' = r.cpu
        /\ out' = r.out
        /\ ret' = r.out
        /\ opcode' = r.opcode
        /\ instruction' = r.instruction
        /\ ob_is_running' = StepRunning(ob_is_running, r.out)
        /\ stored' = StoredAfter(stored, ob_cpu, r)
        /\ drawn' = DrawnAfter(drawn, ob_cpu, r)
        /\ pending' = PendingAfter(pending, ob_cpu, r)
    /\ UNCHANGED <<rom_file, rom_out, alive, ncalls>>

\* emulationStep, at most bound times in a behaviour
StepWithin(bound) ==
    /\ nsteps < bound
    /\ nsteps' = nsteps + 1
    /\ StepBody

snek8_emulatorEmulationStep == StepWithin(MaxSteps)

Reinit == \E implm_flags \in ReinitFlags : snek8_emulatorInit(implm_flags)

GetKey == \E key \in KeyInputs : snek8_emulatorGetKeyValue(key)

FlagsOn == \E flags \in FlagArgs : snek8_emulatorTurnFlagsOn(flags)

FlagsOff == \E flags \in FlagArgs : snek8_emulatorTurnFlagsOff(flags)

SetRunning == \E is_running \in BOOLEAN : snek8_emulatorSetRunning(is_running)

SetKey == \E index \in KeyInputs, value \in BOOLEAN : snek8_emulatorSetKeyValue(index, value)

LoadRom == \E file \in {rom_file, NoFile} : snek8_emulatorLoadRom(file)

Next ==
    \/ Reinit
    \/ GetKey
    \/ snek8_emulatorGetSP
    \/ FlagsOn
    \/ FlagsOff
    \/ SetRunning
    \/ SetKey
    \/ LoadRom
    \/ snek8_emulatorEmulationStep

Spec == Init /\ [][Next]_vars

(***************************************************************************)
(* A run: the ROM is loaded into the fresh emulator, then stepped.         *)
(***************************************************************************)
RunLoad ==
    /\ nsteps = 0
    /\ ncalls = 0
    /\ snek8_emulatorLoadRom(rom_file)

RunStep == StepWithin(MaxRunSteps)

NextRun ==
    \/ RunLoad
    \/ RunStep

SpecRun == Init /\ [][NextRun]_vars

(***************************************************************************)
(* One program on chosen registers: an earlier ROM has left values in the  *)
(* registers and in I and has jumped back to 0x200, the program was then   *)
(* loaded over it with loadRom (which leaves registers, I and pc alone),   *)
(* and is stepped.                                                         *)
(***************************************************************************)
\* the values V0, V1 and VF are drawn from
ByteSamples == {0, 1, 127, 128, 254, 255}

\* V0 = a, V1 = b, VF = vf, and V2..VE hold 37, 54, ..., 241
ExecRegisters(a, b, vf) ==
    [i \in 0..(SNEK8_SIZE_REGISTERS - 1) |->
        CASE i = 0 -> a
          [] i = 1 -> b
          [] i = 15 -> vf
          [] OTHER -> 17 * i + 3]

\* the values I is drawn from
IrSamples == {768, 4093, 4094, 4095}

\* implm_flags the program runs under
ExecFlags == {0, 1, 2, 4, 7}

\* 8XY4, 8XY5, 8XY6, 8XY7, 8XYE with (X, Y) among (0,1), (0,0), (F,1), (0,F), (F,F)
ArithWords ==
    {<<128 + xy[1], 16 * xy[2] + n>> :
        xy \in {<<0, 1>>, <<0, 0>>, <<15, 1>>, <<0, 15>>, <<15, 15>>}, n \in {4, 5, 6, 7, 14}}

\* 70 01, 70 FF, 71 80, 7F 01, 7F FF
AddByteWords == {<<112, 1>>, <<112, 255>>, <<113, 128>>, <<127, 1>>, <<127, 255>>}

\* B2 10, B3 05, B0 FF, B1 00
JumpWords == {<<178, 16>>, <<179, 5>>, <<176, 255>>, <<177, 0>>}

\* F0 55, F2 55, FF 55, F0 65, F2 65, FF 65
MemWords == {<<240, 85>>, <<242, 85>>, <<255, 85>>, <<240, 101>>, <<242, 101>>, <<255, 101>>}

\* F2 55 60 11 61 22 62 33 F2 65: store V0..V2, overwrite them, load them back
RomStoreLoad == <<242, 85, 96, 17, 97, 34, 98, 51, 242, 101>>
\* F2 55 80 14 F2 65: store V0..V2, add V1 to V0, load them back
RomStoreAddLoad == <<242, 85, 128, 20, 242, 101>>

MemProgs == MemWords \cup {RomStoreLoad, RomStoreAddLoad}

\* F0 1E, FF 1E, F0 33, F2 33
IndexWords == {<<240, 30>>, <<255, 30>>, <<240, 51>>, <<242, 51>>}

\* F0 29, F1 29, F2 29, A1 23, AF FF
FontWords == {<<240, 41>>, <<241, 41>>, <<242, 41>>, <<161, 35>>, <<175, 255>>}

\* D0 11 D0 11 D0 11: the sprite byte at I three times at (V0, V1)
RomDrawThrice == <<208, 17, 208, 17, 208, 17>>
\* D0 12 70 02 D0 12: two sprite rows at (V0, V1), then two columns further right
RomDrawShift == <<208, 18, 112, 2, 208, 18>>
\* D0 13 D0 13 00 E0 D0 13: three rows twice, the screen cleared, three rows again
RomDrawClear == <<208, 19, 208, 19, 0, 224, 208, 19>>
\* DF 11 D1 F1: VF as the x and as the y coordinate
RomDrawVF == <<223, 17, 209, 241>>

\* D0 12 D0 10 D0 11: two sprite rows, then none, then one
RomDrawRows == <<208, 18, 208, 16, 208, 17>>

DrawProgs == {RomDrawThrice, RomDrawShift, RomDrawClear, RomDrawVF}

\* a program and the value of I it starts with
ExecInputs ==
    {[prog |-> p, ir |-> 0] :
        p \in ArithWords \cup AddByteWords \cup JumpWords \cup FontWords}
        \cup {[prog |-> p, ir |-> ir] : p \in MemProgs \cup IndexWords, ir \in IrSamples}
        \cup {[prog |-> p, ir |-> 768] : p \in DrawProgs}
        \cup {[prog |-> RomDrawRows, ir |-> ir] : ir \in {4094, 4095}}

\* bytes of the ROM outside the program: 0xA0.. from 0x300, 0xC0.. from 0xFF0
ExecData ==
    [a \in (768..783) \cup (4080..4095) |->
        IF a < 4080 THEN 160 + (a - 768) ELSE 192 + (a - 4080)]

\* memory after loadRom of the program followed by its data
ExecMemory(prog) ==
    LET loaded == CopyRom(InitMemory, RomFile(prog), Len(prog))
    IN  [a \in (DOMAIN loaded) \cup (DOMAIN ExecData) |->
            IF a \in DOMAIN ExecData THEN ExecData[a] ELSE loaded[a]]

\* emulationStep() calls in a run of one program
MaxExecSteps == 5

InitExec ==
    /\ \E implm_flags \in ExecFlags, in \in ExecInputs, a \in ByteSamples,
          b \in ByteSamples, vf \in ByteSamples :
        /\ ob_cpu = [snek8_cpuInit(ZeroCPU, implm_flags) EXCEPT
                        !.registers = ExecRegisters(a, b, vf),
                        !.ir = in.ir,
                        !.memory = ExecMemory(in.prog)]
        /\ rom_file = RomFile(in.prog)
    /\ ob_is_running = TRUE
    /\ alive = TRUE
    /\ call = "loadRom"
    /\ ret = "False"
    /\ rom_out = "SUCCESS"
    /\ out = "NONE"
    /\ fetch_pc = 0
    /\ opcode = 0
    /\ instruction = NOP
    /\ nsteps = 0
    /\ ncalls = 0
    /\ stored = NothingStored
    /\ drawn = NothingDrawn
    /\ pending = <<>>

ExecStep == StepWithin(MaxExecSteps)

NextExec == ExecStep

SpecExec == InitExec /\ [][NextExec]_vars

(***************************************************************************)
(* A key wait: a program that waits for a key with FX0A and jumps back to  *)
(* the wait has been loaded; the host sets and clears keys and keeps       *)
(* calling emulationStep().                                                *)
(***************************************************************************)
\* F0 0A 12 00, FF 0A 12 00: LD Vx, K then JP 0x200
WaitProgs == {<<240, 10, 18, 0>>, <<255, 10, 18, 0>>}

\* in a key wait nsteps counts the emulationStep() calls modulo this
MaxWaitSteps == 2

InitWait ==
    /\ \E prog \in WaitProgs, a \in {1, 255} :
        /\ ob_cpu = [snek8_cpuInit(ZeroCPU, 0) EXCEPT
                        !.registers = ExecRegisters(a, 3, 9),
                        !.memory = CopyRom(InitMemory, RomFile(prog), Len(prog))]
        /\ rom_file = RomFile(prog)
    /\ ob_is_running = TRUE
    /\ alive = TRUE
    /\ call = "loadRom"
    /\ ret = "False"
    /\ rom_out = "SUCCESS"
    /\ out = "NONE"
    /\ fetch_pc = 0
    /\ opcode = 0
    /\ instruction = NOP
    /\ nsteps = 0
    /\ ncalls = 0
    /\ stored = NothingStored
    /\ drawn = NothingDrawn
    /\ pending = <<>>

WaitStep ==
    /\ nsteps' = (nsteps + 1) % MaxWaitSteps
    /\ StepBody

NextWait ==
    \/ SetKey
    \/ WaitStep

\* the host's loop calls emulationStep() again and again
SpecWait == InitWait /\ [][NextWait]_vars /\ WF_vars(WaitStep)

(***************************************************************************)
(* Properties.                                                             *)
(***************************************************************************)
\* this step of the behaviour is an emulationStep() call
IsStep == call' = "emulationStep" /\ nsteps' = nsteps + 1

\* the last call was an emulationStep() that returned an error code
HaltedByStep == call = "emulationStep" /\ out # "SUCCESS"

Max(a, b) == IF a >= b THEN a ELSE b

\* C1: once a step() has returned a code other than SUCCESS, a further step()
\* changes nothing of the CPU (pc, registers, IR, stack, sp, timers, memory,
\* framebuffer) and returns that same code again.
C1_HaltedStepIsNoOp ==
    [][(HaltedByStep /\ IsStep) => (ob_cpu' = ob_cpu /\ out' = out)]_vars

\* C2 as claimed: a step() returning SUCCESS leaves a running emulator running,
\* a step() returning another code halts it, and a halted emulator is made
\* to run again by nothing but a (re)initialization.
C2_OnlyInitResumes ==
    [][/\ (IsStep /\ out' = "SUCCESS" /\ ob_is_running) => ob_is_running'
       /\ (IsStep /\ out' # "SUCCESS") => ~ob_is_running'
       /\ (HaltedByStep /\ ~ob_is_running /\ ob_is_running') => call' = "__init__"]_vars

\* C2 amended: a step() returning SUCCESS leaves a running emulator running,
\* a step() returning another code clears ob_is_running, and a cleared
\* ob_is_running is set again only by a loadRom that succeeds or by
\* setRunning: not by a step, a key, a flag change or __init__.
C2_RunningFlag ==
    [][/\ (IsStep /\ out' = "SUCCESS" /\ ob_is_running) => ob_is_running'
       /\ (IsStep /\ out' # "SUCCESS") => ~ob_is_running'
       /\ (~ob_is_running /\ ob_is_running') =>
            \/ call' = "loadRom" /\ rom_out' = "SUCCESS"
            \/ call' = "setRunning"]_vars

\* a step has failed and halted the emulator, and a loadRom made it run again
C2_Witness ==
    /\ call = "loadRom"
    /\ ob_is_running
    /\ out \notin {"NONE", "SUCCESS"}

\* the words C3 lists as outside the instruction set
C3_Unlisted(w) ==
    LET msq == w \div 4096
        byte == w % 256
    IN  \/ msq = 0 /\ w \notin {224, 238}
        \/ msq = 8 /\ (w % 16) \notin {0, 1, 2, 3, 4, 5, 6, 7, 14}
        \/ msq = 14 /\ byte \notin {158, 161}
        \/ msq = 15 /\ byte \notin {7, 10, 21, 24, 30, 41, 51, 85, 101}

\* C3: a step() that fetches a word outside the instruction set returns
\* INVALID_OPCODE and has no effect but the advance of pc and the timer tick.
C3_UnlistedIsInvalid ==
    [][(IsStep /\ C3_Unlisted(opcode')) =>
            /\ out' = "INVALID_OPCODE"
            /\ ob_cpu' = _snek8_cpuTickTimers(_snek8_cpuIncrementPC(ob_cpu))]_vars

\* C4: the stack pointer stays within 0..16.
C4_SpInRange == ob_cpu.stack.sp >= 0 /\ ob_cpu.stack.sp <= 16

\* the stack is full and a further CALL has been refused
C4_Witness ==
    /\ ob_cpu.stack.sp = 16
    /\ call = "emulationStep"
    /\ out = "STACK_OVERFLOW"

\* C5: 2NNN with sp = 16 returns STACK_OVERFLOW, leaves the stack and sp as
\* they were and does not jump; with sp < 16 it stores the advanced pc at
\* stack[sp], increments sp and sets pc to NNN.
C5_Call ==
    [][(IsStep /\ opcode' \div 4096 = 2) =>
            IF ob_cpu.stack.sp = 16
            THEN /\ out' = "STACK_OVERFLOW"
                 /\ ob_cpu'.stack = ob_cpu.stack
                 /\ ob_cpu'.pc = ob_cpu.pc + 2
            ELSE /\ out' = "SUCCESS"
                 /\ ob_cpu'.stack.buffer =
                        [ob_cpu.stack.buffer EXCEPT ![ob_cpu.stack.sp] = ob_cpu.pc + 2]
                 /\ ob_cpu'.stack.sp = ob_cpu.stack.sp + 1
                 /\ ob_cpu'.pc = opcode' % 4096]_vars

\* a CALL has been refused on a full stack whose top entry a CALL stored
C5_Witness ==
    /\ call = "emulationStep"
    /\ opcode \div 4096 = 2
    /\ out = "STACK_OVERFLOW"
    /\ ob_cpu.stack.sp = 16
    /\ ob_cpu.stack.buffer[15] = 514

\* C6: 00EE with sp = 0 returns STACK_EMPTY and leaves sp and the stack as
\* they were; with sp > 0 it decrements sp and sets pc to the entry at the
\* new sp.
C6_Ret ==
    [][(IsStep /\ opcode' = 238) =>
            IF ob_cpu.stack.sp = 0
            THEN /\ out' = "STACK_EMPTY"
                 /\ ob_cpu'.stack = ob_cpu.stack
            ELSE /\ out' = "SUCCESS"
                 /\ ob_cpu'.stack.sp = ob_cpu.stack.sp - 1
                 /\ ob_cpu'.stack.buffer = ob_cpu.stack.buffer
                 /\ ob_cpu'.pc = ob_cpu.stack.buffer[ob_cpu.stack.sp - 1]]_vars

\* a RET has popped the return address of the CALL at 0x200
C6_Witness ==
    /\ call = "emulationStep"
    /\ opcode = 238
    /\ out = "SUCCESS"
    /\ ob_cpu.stack.sp = 0
    /\ ob_cpu.pc = 514

\* C7: a CALL NNN fetched at a with sp = s < 16 leaves pc = NNN, sp = s + 1
\* and stack[s] = a + 2; a RET that is the next step leaves pc = a + 2 and
\* sp one less, that is s again.
C7_CallRet ==
    [][/\ (IsStep /\ opcode' \div 4096 = 2 /\ ob_cpu.stack.sp < 16) =>
            /\ ob_cpu'.pc = opcode' % 4096
            /\ ob_cpu'.stack.sp = ob_cpu.stack.sp + 1
            /\ ob_cpu'.stack.buffer[ob_cpu.stack.sp] = fetch_pc' + 2
       /\ (/\ call = "emulationStep" /\ opcode \div 4096 = 2 /\ out = "SUCCESS"
           /\ IsStep /\ opcode' = 238) =>
            /\ ob_cpu'.pc = fetch_pc + 2
            /\ ob_cpu'.stack.sp = ob_cpu.stack.sp - 1
            /\ ob_cpu'.stack.sp + 1 = ob_cpu.stack.sp]_vars

\* a RET has run right after the CALL at 0x200 and is back behind it
C7_Witness ==
    /\ call = "emulationStep"
    /\ opcode = 238
    /\ out = "SUCCESS"
    /\ nsteps = 2
    /\ fetch_pc = 518
    /\ ob_cpu.pc = 514
    /\ ob_cpu.stack.sp = 0

\* C8: a step() that finds pc >= 0xFFF returns MEM_OUT_OF_BOUNDS without
\* fetching; otherwise the two bytes it fetches lie inside memory.
C8_FetchInBounds ==
    [][IsStep =>
            IF ob_cpu.pc >= SNEK8_MEM_ADDR_RAM_END
            THEN /\ out' = "MEM_ADDR_OUT_OF_BOUNDS"
                 /\ ob_cpu'.pc = ob_cpu.pc
            ELSE FetchAddrs(ob_cpu) \subseteq 0..(SNEK8_SIZE_RAM - 1)]_vars

\* C9: every step() decrements dt and st once whatever word it fetches and
\* whatever it returns: on a step that fetches no FX15 a nonzero dt goes down
\* by 1 and a zero dt stays 0, and likewise st on a step that fetches no FX18.
C9_TimersTick ==
    [][IsStep =>
            /\ ~(opcode' \div 4096 = 15 /\ opcode' % 256 = 21) =>
                    ob_cpu'.dt = Max(ob_cpu.dt - 1, 0)
            /\ ~(opcode' \div 4096 = 15 /\ opcode' % 256 = 24) =>
                    ob_cpu'.st = Max(ob_cpu.st - 1, 0)]_vars

\* the predicate of a conditional skip w, on the CPU that fetches it
C10_IsSkip(w) ==
    \/ w \div 4096 \in {3, 4}
    \/ w \div 4096 \in {5, 9} /\ w % 16 = 0
    \/ w \div 4096 = 14 /\ w % 256 \in {158, 161}

C10_Holds(cpu, w) ==
    LET vx == cpu.registers[(w \div 256) % 16]
        vy == cpu.registers[(w \div 16) % 16]
        kk == w % 256
        held == (cpu.keys \div (2 ^ vx)) % 2 = 1
    IN  CASE w \div 4096 = 3 -> vx = kk
          [] w \div 4096 = 4 -> vx # kk
          [] w \div 4096 = 5 -> vx = vy
          [] w \div 4096 = 9 -> vx # vy
          [] w % 256 = 158 -> held
          [] OTHER -> ~held

\* C10: a conditional skip fetched at a (for the key forms with V[X] <= 15)
\* leaves pc = a + 4 when its predicate holds and pc = a + 2 when it does not,
\* and changes no register, IR, stack or memory cell.
C10_Skips ==
    [][(/\ IsStep
        /\ C10_IsSkip(opcode')
        /\ (opcode' \div 4096 = 14 => ob_cpu.registers[(opcode' \div 256) % 16] <= 15)) =>
            /\ out' = "SUCCESS"
            /\ ob_cpu'.pc = IF C10_Holds(ob_cpu, opcode') THEN ob_cpu.pc + 4 ELSE ob_cpu.pc + 2
            /\ ob_cpu'.registers = ob_cpu.registers
            /\ ob_cpu'.ir = ob_cpu.ir
            /\ ob_cpu'.stack = ob_cpu.stack
            /\ ob_cpu'.memory = ob_cpu.memory]_vars

\* SKNP V0 has run with V0 = 5 and key 5 held, and has not skipped
C10_Witness ==
    /\ call = "emulationStep"
    /\ opcode = 57505
    /\ ob_cpu.registers[0] = 5
    /\ (ob_cpu.keys \div 32) % 2 = 1
    /\ ob_cpu.pc = fetch_pc + 2

\* the X and Y of a word, and whether it is 8XYn
OpX(w) == (w \div 256) % 16

OpY(w) == (w \div 16) % 16

Is8XYn(w, n) == w \div 4096 = 8 /\ w % 16 = n

\* C11: 8XY4 with X # F leaves V[X] = (a + b) mod 256 and VF = 1 if
\* a + b >= 256, else VF = 0, for a = V[X] and b = V[Y] before the step.
C11_AddCarry ==
    [][(IsStep /\ Is8XYn(opcode', 4) /\ OpX(opcode') # 15) =>
            LET a == ob_cpu.registers[OpX(opcode')]
                b == ob_cpu.registers[OpY(opcode')]
            IN  /\ ob_cpu'.registers[OpX(opcode')] = (a + b) % 256
                /\ ob_cpu'.registers[15] = IF a + b >= 256 THEN 1 ELSE 0]_vars

\* 8014 has added V1 = 1 to V0 = 254: the sum is 255 and there is no carry
C11_Witness ==
    /\ call = "emulationStep"
    /\ nsteps = 1
    /\ opcode = 32788
    /\ ob_cpu.registers[0] = 255
    /\ ob_cpu.registers[1] = 1
    /\ ob_cpu.registers[15] = 0

\* C12: with X # F, 8XY5 leaves V[X] = (a - b) mod 256 and VF = 1 exactly
\* when a >= b; 8XY7 leaves V[X] = (b - a) mod 256 and VF = 1 exactly when
\* b >= a, for a = V[X] and b = V[Y] before the step.
C12_SubNotBorrow ==
    [][(IsStep /\ OpX(opcode') # 15) =>
            LET a == ob_cpu.registers[OpX(opcode')]
                b == ob_cpu.registers[OpY(opcode')]
            IN  /\ Is8XYn(opcode', 5) =>
                    /\ ob_cpu'.registers[OpX(opcode')] = (a - b) % 256
                    /\ ob_cpu'.registers[15] = IF a >= b THEN 1 ELSE 0
                /\ Is8XYn(opcode', 7) =>
                    /\ ob_cpu'.registers[OpX(opcode')] = (b - a) % 256
                    /\ ob_cpu'.registers[15] = IF b >= a THEN 1 ELSE 0]_vars

\* 8015 has subtracted V1 = 128 from an equal V0: the result is 0 and VF is 1
C12_Witness ==
    /\ call = "emulationStep"
    /\ nsteps = 1
    /\ opcode = 32789
    /\ ob_cpu.registers[0] = 0
    /\ ob_cpu.registers[1] = 128
    /\ ob_cpu.registers[15] = 1

\* what 8XYn is to leave in V[X] and in VF, for a = V[X] and b = V[Y] before
\* it; the shifts work on b when shifts_use_vy is on and on a when it is off
ArithResult(n, a, b, use_vy) ==
    LET v == IF use_vy THEN b ELSE a
    IN  CASE n = 4 -> (a + b) % 256
          [] n = 5 -> (a - b) % 256
          [] n = 7 -> (b - a) % 256
          [] n = 6 -> v \div 2
          [] OTHER -> (2 * v) % 256

ArithFlag(n, a, b, use_vy) ==
    LET v == IF use_vy THEN b ELSE a
    IN  CASE n = 4 -> IF a + b >= 256 THEN 1 ELSE 0
          [] n = 5 -> IF a >= b THEN 1 ELSE 0
          [] n = 7 -> IF b >= a THEN 1 ELSE 0
          [] n = 6 -> v % 2
          [] OTHER -> v \div 128

IsFlagArith(w) == w \div 4096 = 8 /\ w % 16 \in {4, 5, 6, 7, 14}

ShiftsUseVY(cpu) == FlagSet(cpu.implm_flags, SNEK8_IMPLM_MODE_SHIFTS_USE_VY)

\* C13: for 8XY4, 8XY5, 8XY6, 8XY7 and 8XYE, VF is written after the result:
\* with X = F the step leaves the flag in VF, not the result; with Y = F and
\* X # F the result in V[X] and the flag are both computed from the VF held
\* before the step.
C13_FlagWrittenLast ==
    [][(IsStep /\ IsFlagArith(opcode')) =>
            LET x == OpX(opcode')
                y == OpY(opcode')
                n == opcode' % 16
                a == ob_cpu.registers[x]
                b == ob_cpu.registers[y]
                use_vy == ShiftsUseVY(ob_cpu)
            IN  /\ x = 15 => ob_cpu'.registers[15] = ArithFlag(n, a, b, use_vy)
                /\ (y = 15 /\ x # 15) =>
                    /\ ob_cpu'.registers[x] = ArithResult(n, a, b, use_vy)
                    /\ ob_cpu'.registers[15] = ArithFlag(n, a, b, use_vy)]_vars

\* C14: 7XKK sets V[X] to (V[X] + KK) mod 256 and changes nothing else: no
\* other register (VF keeps its value when the sum overflows), not IR, not
\* the stack, not memory.
C14_AddByteFrame ==
    [][(IsStep /\ opcode' \div 4096 = 7) =>
            /\ ob_cpu'.registers =
                    [ob_cpu.registers EXCEPT ![OpX(opcode')] =
                        (ob_cpu.registers[OpX(opcode')] + (opcode' % 256)) % 256]
            /\ ob_cpu'.ir = ob_cpu.ir
            /\ ob_cpu'.stack = ob_cpu.stack
            /\ ob_cpu'.memory = ob_cpu.memory]_vars

\* 70FF has overflowed V0 (it was 1) and VF still holds 254
C14_Witness ==
    /\ call = "emulationStep"
    /\ nsteps = 1
    /\ opcode = 28927
    /\ ob_cpu.registers[0] = 0
    /\ ob_cpu.registers[15] = 254

\* C15: with shifts_use_vy off 8XY6 sets V[X] to V[X] >> 1 and 8XYE to
\* (V[X] << 1) mod 256; with it on they set V[X] to V[Y] >> 1 and
\* (V[Y] << 1) mod 256. VF receives the bit shifted out of the value that was
\* shifted: of V[Y] when the quirk is on.
C15_ShiftQuirk ==
    [][(IsStep /\ (Is8XYn(opcode', 6) \/ Is8XYn(opcode', 14))) =>
            LET x == OpX(opcode')
                n == opcode' % 16
                a == ob_cpu.registers[x]
                b == ob_cpu.registers[OpY(opcode')]
                use_vy == ShiftsUseVY(ob_cpu)
            IN  /\ x # 15 => ob_cpu'.registers[x] = ArithResult(n, a, b, use_vy)
                /\ ob_cpu'.registers[15] = ArithFlag(n, a, b, use_vy)]_vars

\* C16: BNNN sets pc to NNN + V[0] with bnnn_uses_vx off and to NNN + V[X],
\* X being bits 8..11 of the opcode, with it on; NNN is the low 12 bits.
C16_JumpQuirk ==
    [][(IsStep /\ opcode' \div 4096 = 11) =>
            LET x == IF FlagSet(ob_cpu.implm_flags, SNEK8_IMPLM_MODE_BNNN_USES_VX)
                     THEN OpX(opcode') ELSE 0
            IN  ob_cpu'.pc = (opcode' % 4096) + ob_cpu.registers[x]]_vars

IsFX55(w) == w \div 4096 = 15 /\ w % 256 = 85

IsFX65(w) == w \div 4096 = 15 /\ w % 256 = 101

FxChangesI(cpu) == FlagSet(cpu.implm_flags, SNEK8_IMPLM_MODE_FX_CHANGES_I)

\* memory with V[i..x] written at ir + i .. ir + x
RECURSIVE MemoryWith(_, _, _, _, _)
MemoryWith(memory, ir, registers, i, x) ==
    IF i > x THEN memory
    ELSE MemoryWith(Put(memory, ir + i, registers[i]), ir, registers, i + 1, x)

\* C17: FX55 with IR0 + X <= 0xFFF, under either setting of the quirk, leaves
\* memory[IR0 + i] = V[i] for i in 0..X and every other memory cell and every
\* register as it was, and IR = IR0 + X + 1 with the quirk on, IR0 with it off.
C17_Store ==
    [][(IsStep /\ IsFX55(opcode') /\ ob_cpu.ir + OpX(opcode') <= 4095) =>
            /\ ob_cpu'.memory =
                    MemoryWith(ob_cpu.memory, ob_cpu.ir, ob_cpu.registers, 0, OpX(opcode'))
            /\ ob_cpu'.registers = ob_cpu.registers
            /\ ob_cpu'.ir = IF FxChangesI(ob_cpu) THEN ob_cpu.ir + OpX(opcode') + 1
                            ELSE ob_cpu.ir]_vars

\* C18: FX65 with IR0 + X <= 0xFFF, under either setting of the quirk, leaves
\* V[i] = the byte memory[IR0 + i] held before it for i in 0..X, the registers
\* above X and all memory as they were, and IR = IR0 + X + 1 with the quirk
\* on, IR0 with it off.
C18_Load ==
    [][(IsStep /\ IsFX65(opcode') /\ ob_cpu.ir + OpX(opcode') <= 4095) =>
            /\ ob_cpu'.registers =
                    [i \in 0..15 |-> IF i <= OpX(opcode')
                                     THEN Cell(ob_cpu.memory, ob_cpu.ir + i)
                                     ELSE ob_cpu.registers[i]]
            /\ ob_cpu'.memory = ob_cpu.memory
            /\ ob_cpu'.ir = IF FxChangesI(ob_cpu) THEN ob_cpu.ir + OpX(opcode') + 1
                            ELSE ob_cpu.ir]_vars

C20_StoreLoadRoundTrip ==
    [][(/\ IsStep
        /\ IsFX65(opcode')
        /\ ~FxChangesI(ob_cpu)
        /\ stored.x = OpX(opcode')
        /\ ~FxChangesI(stored.before)
        /\ stored.before.ir = ob_cpu.ir
        /\ \A i \in 0..stored.x :
                Cell(ob_cpu.memory, ob_cpu.ir + i) = Cell(stored.after.memory, ob_cpu.ir + i)) =>
            \A i \in 0..stored.x : ob_cpu'.registers[i] = stored.before.registers[i]]_vars

\* F265 has brought back V0 = 255, V1 = 1, V2 = 37 that F255 had stored,
\* after 6011 6122 6233 had overwritten them
C20_Witness ==
    /\ call = "emulationStep"
    /\ nsteps = 5
    /\ opcode = 62053
    /\ out = "SUCCESS"
    /\ rom_file.bytes = RomStoreLoad
    /\ ~FxChangesI(ob_cpu)
    /\ stored.x = 2
    /\ stored.after.registers[0] = 255
    /\ ob_cpu.registers[0] = 255
    /\ ob_cpu.registers[1] = 1
    /\ ob_cpu.registers[2] = 37


\* the functions of the opcodes that write IR: ANNN, FX1E, FX29, FX55, FX65
IrWriters ==
    {"snek8_cpuLD_I_ADDR", "snek8_cpuADD_I_VX", "snek8_cpuLD_F_VX",
     "snek8_cpuLD_I_V0_VX", "snek8_cpuLD_VX_V0_I"}

\* C21: after any step that runs an opcode that writes IR (ANNN, FX1E, FX29,
\* FX55 and FX65 under either quirk setting) IR lies in 0..0xFFF, and FX1E
\* leaves IR = (IR + V[X]) & 0xFFF.
C21_IrWithinRam ==
    [][(IsStep /\ instruction'.exec \in IrWriters) =>
            /\ ob_cpu'.ir \in 0..SNEK8_MEM_ADDR_RAM_END
            /\ instruction'.exec = "snek8_cpuADD_I_VX" =>
                    ob_cpu'.ir = (ob_cpu.ir + ob_cpu.registers[OpX(opcode')]) % 4096]_vars

\* C21 without FX55 and FX65: holds
C21_OtherWriters ==
    [][(IsStep /\ instruction'.exec \in {"snek8_cpuLD_I_ADDR", "snek8_cpuADD_I_VX",
                                            "snek8_cpuLD_F_VX"}) =>
            /\ ob_cpu'.ir \in 0..SNEK8_MEM_ADDR_RAM_END
            /\ instruction'.exec = "snek8_cpuADD_I_VX" =>
                    ob_cpu'.ir = (ob_cpu.ir + ob_cpu.registers[OpX(opcode')]) % 4096]_vars

\* the word is FX29
IsFX29(w) == w \div 4096 = 15 /\ w % 256 = 41

\* C22: FX29 leaves IR = 0x050 + 5 * (V[X] & 0x0F) for every value of V[X], the
\* first byte of one of the 16 font glyphs in [0x050, 0x0A0).
C22_FontGlyph ==
    [][(IsStep /\ IsFX29(opcode')) =>
            /\ ob_cpu'.ir = SNEK8_MEM_ADDR_FONTSET_START
                    + SNEK8_SIZE_FONTSET_PIXEL_PER_SPRITE * (ob_cpu.registers[OpX(opcode')] % 16)
            /\ ob_cpu'.ir \in SNEK8_MEM_ADDR_FONTSET_START..159]_vars

\* C22 for V[X] in 0..15 only: holds
C22_FontGlyphOfDigit ==
    [][(IsStep /\ IsFX29(opcode') /\ ob_cpu.registers[OpX(opcode')] < 16) =>
            /\ ob_cpu'.ir = SNEK8_MEM_ADDR_FONTSET_START
                    + SNEK8_SIZE_FONTSET_PIXEL_PER_SPRITE * ob_cpu.registers[OpX(opcode')]
            /\ ob_cpu'.ir \in SNEK8_MEM_ADDR_FONTSET_START..159]_vars

\* the word is FX33
IsFX33(w) == w \div 4096 = 15 /\ w % 256 = 51

IrAddrs(cpu, w) ==
    LET f == snek8_opcodeDecode(w).exec
        x == snek8_opcodeGetNibble(w, 2)
        n == snek8_opcodeGetNibble(w, 0)
    IN  CASE f = "snek8_cpuDRW_VX_VY_N" ->
                IF cpu.ir + n > SNEK8_MEM_ADDR_RAM_END THEN {}
                ELSE {cpu.ir + col : col \in 0..(n - 1)}
          [] f = "snek8_cpuLD_B_VX" ->
                IF cpu.ir + 2 > SNEK8_MEM_ADDR_RAM_END THEN {}
                ELSE {cpu.ir + i : i \in 0..2}
          [] f \in {"snek8_cpuLD_I_V0_VX", "snek8_cpuLD_VX_V0_I"} ->
                IF cpu.ir + x > SNEK8_MEM_ADDR_RAM_END THEN {}
                ELSE IF FlagSet(cpu.implm_flags, SNEK8_IMPLM_MODE_FX_CHANGES_I)
                     THEN {(cpu.ir + i) + i : i \in 0..x}
                     ELSE {cpu.ir + i : i \in 0..x}
          [] OTHER -> {}

\* C24: under every quirk setting DXYN, FX33, FX55 and FX65 read or write only
\* memory addresses in 0..0xFFF, and these opcodes leave the framebuffer
\* (which follows memory in the CPU) alone, DXYN excepted.
C24_IrAccessInBounds ==
    [][IsStep =>
            /\ IrAddrs(ob_cpu, opcode') \subseteq 0..SNEK8_MEM_ADDR_RAM_END
            /\ instruction'.exec \in {"snek8_cpuLD_B_VX", "snek8_cpuLD_I_V0_VX",
                                        "snek8_cpuLD_VX_V0_I"} =>
                    ob_cpu'.graphics = ob_cpu.graphics]_vars

\* C24 with the quirk fx_autoinc_i off: holds
C24_IrAccessInBoundsQuirkOff ==
    [][(IsStep /\ ~FxChangesI(ob_cpu)) =>
            /\ IrAddrs(ob_cpu, opcode') \subseteq 0..SNEK8_MEM_ADDR_RAM_END
            /\ instruction'.exec \in {"snek8_cpuLD_B_VX", "snek8_cpuLD_I_V0_VX",
                                        "snek8_cpuLD_VX_V0_I"} =>
                    ob_cpu'.graphics = ob_cpu.graphics]_vars

\* this step of a key wait is an emulationStep() call
IsWaitStep == call' = "emulationStep" /\ nsteps' = (nsteps + 1) % MaxWaitSteps

\* the word is FX0A
IsFX0A(w) == w \div 4096 = 15 /\ w % 256 = 10

\* the lowest index among the keys held in the bitset keys
LowestHeld(keys) ==
    CHOOSE k \in 0..15 :
        /\ (keys \div (2 ^ k)) % 2 = 1
        /\ \A j \in 0..15 : (keys \div (2 ^ j)) % 2 = 1 => k <= j

\* C25: a step that fetches FX0A at address a returns SUCCESS; with no key
\* held it leaves pc = a and every register as it was; with a key held it
\* leaves V[X] = the lowest index among the held keys, the other registers as
\* they were, and pc = a + 2.
C25_KeyWait ==
    [][(IsWaitStep /\ IsFX0A(opcode')) =>
            /\ out' = "SUCCESS"
            /\ fetch_pc' = ob_cpu.pc
            /\ IF ob_cpu.keys = 0
               THEN /\ ob_cpu'.pc = fetch_pc'
                    /\ ob_cpu'.registers = ob_cpu.registers
               ELSE /\ ob_cpu'.pc = fetch_pc' + 2
                    /\ ob_cpu'.registers =
                            [ob_cpu.registers EXCEPT ![OpX(opcode')] = LowestHeld(ob_cpu.keys)]]_vars

\* keys 0 and 5 are held and F00A has completed with V0 = 0
C25_Witness ==
    /\ call = "emulationStep"
    /\ opcode = 61450
    /\ ob_cpu.keys = 33
    /\ ob_cpu.registers[0] = 0
    /\ fetch_pc = 512
    /\ ob_cpu.pc = 514

\* the CPU is about to fetch an FX0A
Waiting ==
    /\ Cell(ob_cpu.memory, ob_cpu.pc) \div 16 = 15
    /\ Cell(ob_cpu.memory, ob_cpu.pc + 1) = 10

\* the last step completed an FX0A: V[X] holds a held key's index and pc is
\* past the instruction
Completed ==
    /\ call = "emulationStep"
    /\ IsFX0A(opcode)
    /\ ob_cpu.pc = fetch_pc + 2
    /\ ob_cpu.registers[OpX(opcode)] < 16
    /\ (ob_cpu.keys \div (2 ^ ob_cpu.registers[OpX(opcode)])) % 2 = 1

\* C26: with the host calling emulationStep() again and again, if from some
\* point on some key stays held, a CPU waiting on FX0A eventually completes
\* the instruction (V[X] holds a held key's index and pc is past the FX0A);
\* and a waiting CPU stepped with no key held is still waiting at the same pc.
C26_KeyWaitEnds ==
    /\ <>[](ob_cpu.keys # 0) => (Waiting ~> Completed)
    /\ [][(IsWaitStep /\ Waiting /\ ob_cpu.keys = 0) =>
                (Waiting' /\ ob_cpu'.pc = ob_cpu.pc)]_vars

\* key 5 is held and FF0A has completed with VF = 5
C26_Witness ==
    /\ Completed
    /\ opcode = 65290
    /\ ob_cpu.keys = 32
    /\ ob_cpu.registers[15] = 5

\* the step is a DXYN that drew
IsDraw == IsStep /\ instruction'.exec = "snek8_cpuDRW_VX_VY_N" /\ out' = "SUCCESS"

\* bit row (0 the leftmost) of byte col of the sprite at I is set
SpriteBit(cpu, col, row) == (Cell(cpu.memory, cpu.ir + col) \div (2 ^ (7 - row))) % 2 = 1

\* the pixel at column x, row y of the framebuffer g is on
PixelOn(g, x, y) == Cell(g, y * SNEK8_GRAPHICS_WIDTH + x) # 0

\* the sprite of DXYN (X, Y not F) lies within the screen from its origin
\* (V[X] & 63, V[Y] & 31)
SpriteWithinScreen(cpu, w) ==
    /\ OpX(w) # 15
    /\ OpY(w) # 15
    /\ (cpu.registers[OpX(w)] % 64) + 7 < SNEK8_GRAPHICS_WIDTH
    /\ (cpu.registers[OpY(w)] % 32) + (w % 16) - 1 < SNEK8_GRAPHICS_HEIGTH

\* C27: a DXYN whose sprite lies within the screen, on any framebuffer earlier
\* draws have left: a pixel under a set sprite bit goes from on to off or from
\* off to on, a pixel under a clear sprite bit keeps its state, and VF ends at
\* 1 if some pixel went from on to off and at 0 otherwise.
C27_Collision ==
    [][(IsDraw /\ SpriteWithinScreen(ob_cpu, opcode')) =>
            LET px == ob_cpu.registers[OpX(opcode')] % 64
                py == ob_cpu.registers[OpY(opcode')] % 32
                n == opcode' % 16
                g == ob_cpu.graphics
                h == ob_cpu'.graphics
            IN  /\ \A col \in 0..(n - 1), row \in 0..7 :
                        PixelOn(h, px + row, py + col) =
                            IF SpriteBit(ob_cpu, col, row)
                            THEN ~PixelOn(g, px + row, py + col)
                            ELSE PixelOn(g, px + row, py + col)
                /\ ob_cpu'.registers[15] =
                        IF \E col \in 0..(n - 1), row \in 0..7 :
                                SpriteBit(ob_cpu, col, row) /\ PixelOn(g, px + row, py + col)
                        THEN 1 ELSE 0]_vars

\* C27 on a cleared framebuffer: holds
C27_CollisionOnClear ==
    [][(IsDraw /\ SpriteWithinScreen(ob_cpu, opcode') /\ ob_cpu.graphics = Zeroed) =>
            LET px == ob_cpu.registers[OpX(opcode')] % 64
                py == ob_cpu.registers[OpY(opcode')] % 32
                n == opcode' % 16
                h == ob_cpu'.graphics
            IN  /\ \A col \in 0..(n - 1), row \in 0..7 :
                        PixelOn(h, px + row, py + col) = SpriteBit(ob_cpu, col, row)
                /\ ob_cpu'.registers[15] = 0]_vars

\* the step is a DXYN that repeats the last one: same word, same coordinates,
\* same sprite, on the framebuffer the last one left
RepeatsDraw ==
    /\ IsDraw
    /\ drawn.opcode = opcode'
    /\ OpX(opcode') # 15 => drawn.before.registers[OpX(opcode')] = ob_cpu.registers[OpX(opcode')]
    /\ OpY(opcode') # 15 => drawn.before.registers[OpY(opcode')] = ob_cpu.registers[OpY(opcode')]
    /\ drawn.before.ir = ob_cpu.ir
    /\ drawn.before.memory = ob_cpu.memory
    /\ drawn.after = ob_cpu.graphics

\* the sprite at I has a set bit in its N bytes
SpriteHasBit(cpu, w) ==
    \E col \in 0..((w % 16) - 1), row \in 0..7 : SpriteBit(cpu, col, row)

C29_CellsAreBits ==
    [][IsDraw => \A i \in DOMAIN ob_cpu'.graphics : ob_cpu'.graphics[i] \in {0, 1}]_vars

\* what does hold: a cell holds 0 or the OR of masks 0x80 >> row, a byte
C29_CellsAreBytes ==
    \A i \in DOMAIN ob_cpu.graphics :
        /\ i \in 0..(SNEK8_SIZE_GRAPHICS - 1)
        /\ ob_cpu.graphics[i] \in 1..UINT8_MAX

\* the sprite bit of DXYN (X, Y not F) at byte col, bit row lies off the
\* screen: its column or its row, counted from the origin, is past the edge
OffScreen(cpu, w, col, row) ==
    \/ (cpu.registers[OpX(w)] % 64) + row >= SNEK8_GRAPHICS_WIDTH
    \/ (cpu.registers[OpY(w)] % 32) + col >= SNEK8_GRAPHICS_HEIGTH

\* the cells under the sprite bits of DXYN that lie on the screen
OnScreenCells(cpu, w) ==
    {((cpu.registers[OpY(w)] % 32) + col) * SNEK8_GRAPHICS_WIDTH
            + (cpu.registers[OpX(w)] % 64) + row :
        <<col, row>> \in {cr \in (0..((w % 16) - 1)) \X (0..7) :
                            ~OffScreen(cpu, w, cr[1], cr[2])}}

\* C30: DXYN (X, Y not F) draws from the origin (V[X] & 63, V[Y] & 31) and
\* clips: only cells under sprite bits that lie on the screen change, and VF
\* ends at 1 only if a set sprite bit on the screen lies over a pixel that
\* was on.
C30_Clipped ==
    [][(IsDraw /\ OpX(opcode') # 15 /\ OpY(opcode') # 15) =>
            LET g == ob_cpu.graphics
                h == ob_cpu'.graphics
                px == ob_cpu.registers[OpX(opcode')] % 64
                py == ob_cpu.registers[OpY(opcode')] % 32
            IN  /\ \A i \in (DOMAIN g) \cup (DOMAIN h) :
                        Cell(g, i) # Cell(h, i) => i \in OnScreenCells(ob_cpu, opcode')
                /\ ob_cpu'.registers[15] = 1 =>
                        \E col \in 0..((opcode' % 16) - 1), row \in 0..7 :
                            /\ ~OffScreen(ob_cpu, opcode', col, row)
                            /\ SpriteBit(ob_cpu, col, row)
                            /\ PixelOn(g, px + row, py + col)]_vars

\* C30 for sprites that lie within the screen: holds
C30_NothingToClip ==
    [][(IsDraw /\ SpriteWithinScreen(ob_cpu, opcode')) =>
            \A i \in (DOMAIN ob_cpu.graphics) \cup (DOMAIN ob_cpu'.graphics) :
                Cell(ob_cpu.graphics, i) # Cell(ob_cpu'.graphics, i) =>
                    i \in OnScreenCells(ob_cpu, opcode')]_vars

\* the step ran a DXYN
IsDXYN == IsStep /\ instruction'.exec = "snek8_cpuDRW_VX_VY_N"

\* C31: DXYN returns MEM_ADDR_OUT_OF_BOUNDS exactly when IR + N > 0x1000 and
\* SUCCESS otherwise (a sprite whose last byte is memory[0xFFF] is drawn), and
\* with N = 0 it changes no pixel.
C31_DrawBounds ==
    [][IsDXYN =>
            /\ out' = IF ob_cpu.ir + (opcode' % 16) > SNEK8_SIZE_RAM
                      THEN "MEM_ADDR_OUT_OF_BOUNDS" ELSE "SUCCESS"
            /\ opcode' % 16 = 0 => ob_cpu'.graphics = ob_cpu.graphics]_vars

\* what does hold: the sprite is refused when IR + N > 0xFFF
C31_DrawBoundsOneShort ==
    [][IsDXYN =>
            /\ out' = IF ob_cpu.ir + (opcode' % 16) > SNEK8_MEM_ADDR_RAM_END
                      THEN "MEM_ADDR_OUT_OF_BOUNDS" ELSE "SUCCESS"
            /\ opcode' % 16 = 0 => ob_cpu'.graphics = ob_cpu.graphics]_vars

\* key k is held in the bitset keys
KeyHeld(keys, k) == (keys \div (2 ^ k)) % 2 = 1

\* C32: setKeyValue(k, down) with k in 0..15 leaves key k held exactly if
\* down, whatever it was, and the other 15 keys and the rest of the CPU as
\* they were; getKeyValue(k) returns whether key k is held; either call with
\* an index outside 0..15 raises IndexError and changes nothing.
C32_KeyLatch ==
    [][/\ \A index \in KeyInputs, value \in BOOLEAN :
            snek8_emulatorSetKeyValue(index, value) =>
                IF index \in 0..15
                THEN /\ ret' = "None"
                     /\ KeyHeld(ob_cpu'.keys, index) = value
                     /\ \A k \in (0..15) \ {index} :
                            KeyHeld(ob_cpu'.keys, k) = KeyHeld(ob_cpu.keys, k)
                     /\ ob_cpu'.keys < U16
                     /\ [ob_cpu' EXCEPT !.keys = 0] = [ob_cpu EXCEPT !.keys = 0]
                     /\ ob_is_running' = ob_is_running
                ELSE /\ ret' = "IndexError"
                     /\ ob_cpu' = ob_cpu
                     /\ ob_is_running' = ob_is_running
       /\ \A key \in KeyInputs :
            snek8_emulatorGetKeyValue(key) =>
                /\ ret' = IF key \in 0..15
                          THEN (IF KeyHeld(ob_cpu.keys, key) THEN "True" ELSE "False")
                          ELSE "IndexError"
                /\ ob_cpu' = ob_cpu
                /\ ob_is_running' = ob_is_running]_vars

\* key 15 was pressed and getKeyValue(15) has returned True
C32_Witness ==
    /\ call = "getKeyValue"
    /\ ret = "True"
    /\ ob_cpu.keys = 32768
    /\ ncalls = 2

\* the quirk flag with mask b (1, 2 or 4) is set in f
FlagBit(f, b) == (f \div b) % 2 = 1

\* C33: turnFlagsOff(flags) leaves every flag named in flags off, whatever it
\* was, and the other flags as they were; turnFlagsOn(flags) leaves every
\* named flag on and the other flags as they were.
C33_FlagsOnOff ==
    [][\A flags \in FlagArgs, b \in {1, 2, 4} :
            /\ snek8_emulatorTurnFlagsOff(flags) =>
                    FlagBit(ob_cpu'.implm_flags, b) =
                        IF FlagBit(flags, b) THEN FALSE ELSE FlagBit(ob_cpu.implm_flags, b)
            /\ snek8_emulatorTurnFlagsOn(flags) =>
                    FlagBit(ob_cpu'.implm_flags, b) =
                        IF FlagBit(flags, b) THEN TRUE ELSE FlagBit(ob_cpu.implm_flags, b)]_vars

\* C33 for turnFlagsOn, and for turnFlagsOff of flags that are on: holds
C33_FlagsOnOffOfSetFlags ==
    [][\A flags \in FlagArgs, b \in {1, 2, 4} :
            /\ (snek8_emulatorTurnFlagsOff(flags) /\ FlagBit(ob_cpu.implm_flags, flags)) =>
                    FlagBit(ob_cpu'.implm_flags, b) =
                        IF FlagBit(flags, b) THEN FALSE ELSE FlagBit(ob_cpu.implm_flags, b)
            /\ snek8_emulatorTurnFlagsOn(flags) =>
                    FlagBit(ob_cpu'.implm_flags, b) =
                        IF FlagBit(flags, b) THEN TRUE ELSE FlagBit(ob_cpu.implm_flags, b)]_vars

\* cpu is reset but for st: pc = 0x200, IR, sp, dt, keys, registers, stack and
\* framebuffer 0, memory 0 but for the fontset at 0x050, quirk flags f
ResetButSt(cpu, f) ==
    /\ cpu.pc = 512
    /\ cpu.ir = 0
    /\ cpu.sp = 0
    /\ cpu.stack.sp = 0
    /\ cpu.dt = 0
    /\ cpu.keys = 0
    /\ \A i \in 0..15 : cpu.registers[i] = 0 /\ cpu.stack.buffer[i] = 0
    /\ \A i \in 0..(SNEK8_SIZE_GRAPHICS - 1) : Cell(cpu.graphics, i) = 0
    /\ \A a \in 0..(SNEK8_SIZE_RAM - 1) :
            Cell(cpu.memory, a) = IF a \in 80..159 THEN fontset[a - 79] ELSE 0
    /\ cpu.implm_flags = f

\* C34: __init__(quirks) on a CPU in any state that programs and host calls
\* have left resets it completely: pc = 0x200, IR, sp, dt, st, keys,
\* registers, stack and framebuffer 0, memory 0 but for the 80 fontset bytes
\* at [0x050, 0x0A0), and the quirk flags equal to the argument.
C34_InitResets ==
    [][\A f \in ReinitFlags :
            (snek8_emulatorInit(f) /\ ret' = "None") =>
                (ResetButSt(ob_cpu', f) /\ ob_cpu'.st = 0)]_vars

\* what does hold: __init__ resets everything but st, which it leaves
C34_InitResetsButSt ==
    [][\A f \in ReinitFlags :
            (snek8_emulatorInit(f) /\ ret' = "None") =>
                (ResetButSt(ob_cpu', f) /\ ob_cpu'.st = ob_cpu.st)]_vars

\* C35: loadRom of a ROM file of len <= 3584 bytes that is read whole returns
\* SUCCESS, leaves memory[0x200 + i] = byte i of the file for i < len and
\* every other memory cell and the rest of the CPU (pc, IR, registers, stack,
\* timers, keys, framebuffer, flags) as they were; loadRom of a file of more
\* than 3584 bytes returns ROM_FILE_EXCEEDS_MAX_MEM and changes nothing.
C35_LoadRom ==
    [][(snek8_emulatorLoadRom(rom_file) /\ rom_out' # "ROM_FILE_FAILED_TO_READ") =>
            LET len == Len(rom_file.bytes)
            IN  IF len <= 3584
                THEN /\ rom_out' = "SUCCESS"
                     /\ \A a \in 0..(SNEK8_SIZE_RAM - 1) :
                            Cell(ob_cpu'.memory, a) =
                                IF a \in 512..(512 + len - 1) THEN rom_file.bytes[a - 511]
                                ELSE Cell(ob_cpu.memory, a)
                     /\ [ob_cpu' EXCEPT !.memory = Zeroed] = [ob_cpu EXCEPT !.memory = Zeroed]
                ELSE /\ rom_out' = "ROM_FILE_EXCEEDS_MAX_MEM"
                     /\ ob_cpu' = ob_cpu]_vars

\* the ROM of 3584 bytes has been loaded: its last byte is in memory[0xFFF]
C35_Witness ==
    /\ call = "loadRom"
    /\ rom_out = "SUCCESS"
    /\ Len(rom_file.bytes) = 3584
    /\ Cell(ob_cpu.memory, 512) = 18
    /\ Cell(ob_cpu.memory, 4095) = 1

\* C36: a loadRom of an existing file that returns a code other than SUCCESS
\* (ROM_FILE_FAILED_TO_READ after a short read included) leaves memory
\* exactly as it was: no byte of the ROM has been copied.
C36_LoadRomAtomic ==
    [][(snek8_emulatorLoadRom(rom_file) /\ rom_out' # "SUCCESS") =>
            ob_cpu'.memory = ob_cpu.memory]_vars

\* C36 for the codes other than ROM_FILE_FAILED_TO_READ: holds
C36_LoadRomRefusedAtomic ==
    [][(snek8_emulatorLoadRom(rom_file)
            /\ rom_out' \notin {"SUCCESS", "ROM_FILE_FAILED_TO_READ"}) =>
            ob_cpu'.memory = ob_cpu.memory]_vars

\* C37: loadRom of a path at which there is no file returns
\* ROM_FILE_NOT_FOUND or ROM_FILE_FAILED_TO_OPEN as a value: the process
\* lives on, the call returns True, and the CPU is as it was.
C37_MissingRom ==
    [][snek8_emulatorLoadRom(NoFile) =>
            /\ alive'
            /\ rom_out' \in {"ROM_FILE_NOT_FOUND", "ROM_FILE_FAILED_TO_OPEN"}
            /\ ret' = "True"
            /\ ob_cpu' = ob_cpu]_vars

\* what does hold: the process is lost, and nothing is called on it again
C37_MissingRomIsFatal ==
    /\ [][snek8_emulatorLoadRom(NoFile) => ~alive']_vars
    /\ [][~alive => UNCHANGED vars]_vars

\* C38: getSP returns the current stack depth, the number of CALLs that
\* succeeded minus the number of RETs that succeeded since init.
C38_GetSPIsDepth ==
    [][snek8_emulatorGetSP => ret' = ToString(Len(pending))]_vars

\* what does hold: the depth is the sp of the stack, and getSP returns the
\* field sp of the CPU, which is 0
C38_GetSPIsZero ==
    /\ [](ob_cpu.stack.sp = Len(pending))
    /\ [][snek8_emulatorGetSP => ret' = "0"]_vars

\* the step returned an error code of an opcode
IsFailedStep ==
    /\ IsStep
    /\ out' \in {"INVALID_OPCODE", "STACK_EMPTY", "STACK_OVERFLOW", "MEM_ADDR_OUT_OF_BOUNDS"}

\* C39: a step whose opcode returns an error code leaves the 16 registers (VF
\* included), IR, the stack and sp, the keys, memory and the framebuffer as
\* they were; pc has advanced by 2 and the timers have ticked.
C39_FailedStepHasNoEffect ==
    [][IsFailedStep =>
            /\ ob_cpu'.registers = ob_cpu.registers
            /\ ob_cpu'.ir = ob_cpu.ir
            /\ ob_cpu'.stack = ob_cpu.stack
            /\ ob_cpu'.sp = ob_cpu.sp
            /\ ob_cpu'.keys = ob_cpu.keys
            /\ ob_cpu'.memory = ob_cpu.memory
            /\ ob_cpu'.graphics = ob_cpu.graphics
            /\ ob_cpu'.pc = (ob_cpu.pc + 2) % U16
            /\ ob_cpu'.dt = Max(ob_cpu.dt - 1, 0)
            /\ ob_cpu'.st = Max(ob_cpu.st - 1, 0)]_vars

\* C39 with VF left aside for a failed DXYN: holds
C39_FailedStepButDrawVF ==
    [][IsFailedStep =>
            /\ \A i \in 0..15 :
                    (i = 15 /\ instruction'.exec = "snek8_cpuDRW_VX_VY_N")
                        \/ ob_cpu'.registers[i] = ob_cpu.registers[i]
            /\ ob_cpu'.ir = ob_cpu.ir
            /\ ob_cpu'.stack = ob_cpu.stack
            /\ ob_cpu'.sp = ob_cpu.sp
            /\ ob_cpu'.keys = ob_cpu.keys
            /\ ob_cpu'.memory = ob_cpu.memory
            /\ ob_cpu'.graphics = ob_cpu.graphics
            /\ ob_cpu'.pc = (ob_cpu.pc + 2) % U16
            /\ ob_cpu'.dt = Max(ob_cpu.dt - 1, 0)
            /\ ob_cpu'.st = Max(ob_cpu.st - 1, 0)]_vars

\* the entries below sp are the return addresses of the calls not yet
\* returned from, oldest first
StackHoldsPending ==
    /\ ob_cpu.stack.sp = Len(pending)
    /\ \A i \in 1..Len(pending) : ob_cpu.stack.buffer[i - 1] = pending[i]

\* C40: the stack is last-in first-out across nested calls: stack[0..sp)
\* holds exactly the return addresses of the calls not yet returned from, in
\* call order, and each successful RET sets pc to the return address pushed
\* by the most recent CALL not yet returned from.
C40_StackIsLifo ==
    /\ []StackHoldsPending
    /\ [][(IsStep /\ opcode' = 238 /\ out' = "SUCCESS") =>
                /\ Len(pending) > 0
                /\ ob_cpu'.pc = pending[Len(pending)]
                /\ pending' = SubSeq(pending, 1, Len(pending) - 1)]_vars

\* the inner of two nested calls has returned behind its CALL at 0x206 while
\* the outer call, made at 0x200, is still pending
C40_Witness ==
    /\ call = "emulationStep"
    /\ opcode = 238
    /\ out = "SUCCESS"
    /\ ob_cpu.pc = 520
    /\ pending = <<514>>
    /\ ob_cpu.stack.sp = 1
    /\ ob_cpu.stack.buffer[0] = 514
    /\ ob_cpu.stack.buffer[1] = 520

====
